---- MODULE Spec2Model ----
(***************************************************************************)
(* Open-Source-Scout: the pipeline orchestrator (core/orchestrator.py),    *)
(* the run-record store (utils/cache.py) and the language-model gateway's  *)
(* request layer (integrations/groq_client.py) as state machines.          *)
(*                                                                         *)
(* Conventions                                                             *)
(*   - an Optional value is a sequence of length 0 (None) or 1 (the value) *)
(*   - a call of an orchestrator entry point is a "call slot" c in Calls;  *)
(*     its position in the Python code is pc[c], its Python locals are     *)
(*     local[c], what the caller receives is result[c]                     *)
(*   - an exception that leaves an entry point puts the slot in "raised"   *)
(***************************************************************************)
EXTENDS Integers, Sequences, FiniteSets, TLC

\* ------------------------------------------------------------------ bounds
MaxIssues == 2          \* longest issue list the provider returns
MaxClock == 3           \* the wall clock stops ticking here
TicksPerSecond == 2     \* clock ticks per second of wall-clock time
MaxLines == 3           \* lines of a file of the repository searched
MaxTextLen == 4         \* words of a text given to extract_keywords
MaxKeywords == 3        \* max_keywords of a call on such a text
MaxRanked == 3          \* issues in one call of rank_issues
MaxScoreCalls == 2      \* calls of score_issue on one issue
MaxRetryAttempts == 4   \* largest max_attempts given to with_retry
MaxCodeLines == 5       \* lines of a code given to chunk_code
MaxChunkLines == 3      \* largest max_lines given to chunk_code
MaxTextChars == 10      \* characters of a text given to chunk_text
MaxChunkTokens == 2     \* largest max_tokens given to chunk_text
MaxChunks == 12         \* iterations of a chunking loop that are followed

\* ------------------------------------------------------------ plain values
None == <<>>
Some(v) == <<v>>

Calls == {1, 2}

Range(s) == {s[i] : i \in 1..Len(s)}

Min2(a, b) == IF a < b THEN a ELSE b

Max2(a, b) == IF a < b THEN b ELSE a

\* the totals score_issue gives the issues of the orchestrator's scenarios
ScoreChoices == {40, 55}

\* GitHubIssue as the orchestrator sees it: its number and the total that
\* IssueScorer.score_issue computes for it
IssueOf(n, t) == [number |-> n, total |-> t]

\* the provider returns issues with pairwise different numbers
\* (github_client.get_issues de-duplicates on number)
RECURSIVE IssueLists(_)
IssueLists(n) ==
    IF n = 0 THEN {<<>>}
    ELSE IssueLists(n - 1) \cup
         {Append(l, IssueOf(n, t)) : l \in {x \in IssueLists(n - 1) : Len(x) = n - 1},
                                     t \in ScoreChoices}

RepoUrl == "owner/repo"
TheRepo == "GitHubRepo(owner/repo)"
TheRepoPath == "cache/owner_repo"
TheFileTree == "file_tree"

NoIssuesMessage == "No issues found. Try disabling 'Beginner-only mode' to see all issues."
NoIssuesMessagePhase1 == "No issues found matching criteria"
CouldNotRankMessage == "Could not rank any issues"

\* the operations run() and the phased entry points invoke on collaborators
\* and stages, in the order run() invokes them
RunOrder == <<"get_repo", "get_issues", "clone_repo", "get_file_tree",
              "agent1.run", "agent2.run", "agent3.run", "save_run_log">>

Operations == Range(RunOrder)

EntryPoints == {"run", "run_phase1", "run_phase2", "run_phase3"}

CallbackKinds == {"none", "ok", "raises"}

VARIABLES
    clock,            \* wall clock, in ticks
    store,            \* the runs directory: file name -> RunLog
    entry,            \* entry[c]: the entry point called in slot c, or "idle"
    issuesIn,         \* what github.get_issues returns in this scenario
    failing,          \* the operation that raises in this scenario, or "none"
    top_issues,       \* argument top_issues
    selected_issue_number, \* argument selected_issue_number (0: None or 0)
    argIssue,         \* argument issue of run_phase2 / run_phase3
    status_callback,  \* status_callback[c]: the observer installed, by kind
    pc,               \* pc[c]: position of call c
    local,            \* local[c]: Python locals of call c
    ops,              \* ops[c]: operations call c has invoked so far
    result,           \* result[c]: Optional value returned to the caller
    gw_payload,       \* Gateway: the request payload complete() built
    gw_pc,            \* Gateway: position of the complete() call
    gw_attempt,       \* Gateway: attempt number of _make_request (from 1)
    gw_trace,         \* Gateway: upstream outcome of every attempt so far
    gw_waits,         \* Gateway: the waits slept between attempts
    gw_result,        \* Gateway: what the caller of complete() receives
    wr_policy,        \* with_retry: the decorator's arguments
    wr_pc,            \* with_retry: position of the wrapped call
    wr_attempt,       \* with_retry: the loop variable attempt (from 0)
    wr_delay,         \* with_retry: the local delay
    wr_trace,         \* with_retry: outcome of every invocation of func
    wr_waits,         \* with_retry: the delays slept so far
    wr_result,        \* with_retry: what the caller of the wrapper receives
    st_system_prompt, \* complete_structured: whether system_prompt was given
    st_pc,            \* complete_structured: position of the call
    st_response,      \* complete_structured: the text complete() returned
    st_result,        \* complete_structured: what its caller receives
    a1_reasons,       \* Stage A: the Scoring Engine's reasons, by issue number
    a1_pc,            \* Stage A: position of TriageNurseAgent.run
    a1_ranked,        \* Stage A: the local ranked
    a1_replies,       \* Stage A: what complete() did for each issue so far
    a1_ranked_issues, \* Stage A: the local ranked_issues
    a1_result,        \* Stage A: what the caller of run receives
    a2_pc,            \* Stage B: position of ArchaeologistAgent.run
    a2_extracted,     \* Stage B: what extract_keywords returned
    a2_keywords,      \* Stage B: the list object keywords
    a2_suggested,     \* Stage B: what complete() did in _get_search_strategy
    a2_strategies,    \* Stage B: the local search_strategies
    a2_searched,      \* Stage B: the queries searcher.search was called with
    a2_hits,          \* Stage B: the CodeHit objects of the local hits
    a2_reply,         \* Stage B: what complete() did in _analyze_findings
    a2_result,        \* Stage B: what the caller of run receives
    a3_pc,            \* Stage C: position of SeniorDevAgent.run
    a3_replies,       \* Stage C: what complete() did in each generative call
    a3_briefing,      \* Stage C: the local briefing
    a3_pr_draft,      \* Stage C: the local pr_draft
    a3_result,        \* Stage C: what the caller of run receives
    cs_has_ripgrep,   \* CodeSearcher: _has_ripgrep, set at construction
    cs_pc,            \* CodeSearcher: position of the search() call
    cs_args,          \* CodeSearcher: the arguments of the search() call
    cs_route,         \* CodeSearcher: the strategies run, and how ripgrep ended
    cs_result,        \* CodeSearcher: what the caller of search() receives
    rk_args,          \* IssueScorer.rank_issues: the arguments of the call
    rk_result,        \* IssueScorer.rank_issues: the list returned
    sc_issue,         \* IssueScorer.score_issue: the issue given
    sc_now,           \* IssueScorer.score_issue: datetime.now, in days
    sc_results,       \* IssueScorer.score_issue: when each call ran, and its result
    kw_args,          \* extract_keywords: the arguments of the call
    kw_result,        \* extract_keywords: the list returned
    ck_args,          \* chunk_code, chunk_text: the arguments of the call
    ck_pc,            \* chunk_code, chunk_text: position of the call
    ck_start,         \* chunk_code, chunk_text: the local start
    ck_chunks         \* chunk_code, chunk_text: the local chunks

vars == <<clock, store, entry, issuesIn, failing, top_issues,
          selected_issue_number, argIssue, status_callback, pc, local, ops, result,
          gw_payload, gw_pc, gw_attempt, gw_trace, gw_waits, gw_result,
          wr_policy, wr_pc, wr_attempt, wr_delay, wr_trace, wr_waits, wr_result,
          st_system_prompt, st_pc, st_response, st_result,
          a1_reasons, a1_pc, a1_ranked, a1_replies, a1_ranked_issues, a1_result,
          a2_pc, a2_extracted, a2_keywords, a2_suggested, a2_strategies, a2_searched,
          a2_hits, a2_reply, a2_result,
          a3_pc, a3_replies, a3_briefing, a3_pr_draft, a3_result,
          cs_has_ripgrep, cs_pc, cs_args, cs_route, cs_result,
          rk_args, rk_result, sc_issue, sc_now, sc_results, kw_args, kw_result,
          ck_args, ck_pc, ck_start, ck_chunks>>

\* the Gateway's variables
gateway == <<gw_payload, gw_pc, gw_attempt, gw_trace, gw_waits, gw_result>>

\* the variables of with_retry
retrier == <<wr_policy, wr_pc, wr_attempt, wr_delay, wr_trace, wr_waits, wr_result>>

\* the variables of complete_structured
structured == <<st_system_prompt, st_pc, st_response, st_result>>

\* the variables of Stage A
stageA == <<a1_reasons, a1_pc, a1_ranked, a1_replies, a1_ranked_issues, a1_result>>

\* the variables of Stage B
stageB == <<a2_pc, a2_extracted, a2_keywords, a2_suggested, a2_strategies, a2_searched,
           a2_hits, a2_reply, a2_result>>

\* the variables of Stage C
stageC == <<a3_pc, a3_replies, a3_briefing, a3_pr_draft, a3_result>>

\* the variables of the code searcher
searcher == <<cs_has_ripgrep, cs_pc, cs_args, cs_route, cs_result>>

\* the variables of the Scoring Engine
scoring == <<rk_args, rk_result, sc_issue, sc_now, sc_results>>

\* the variables of the text utilities
textutil == <<kw_args, kw_result, ck_args, ck_pc, ck_start, ck_chunks>>

\* the variables of extract_keywords
keywordCall == <<kw_args, kw_result>>

\* the variables of chunk_code and chunk_text
chunker == <<ck_args, ck_pc, ck_start, ck_chunks>>

\* the variables of the components other than the orchestrator
elsewhere == <<gateway, retrier, structured, stageA, stageB, stageC, searcher,
               scoring, textutil>>

\* the orchestrator's variables
orchestrator == <<clock, store, entry, issuesIn, failing, top_issues,
                  selected_issue_number, argIssue, status_callback, pc, local,
                  ops, result>>

\* the variables of the components other than the Gateway
outsideGateway == <<orchestrator, retrier, structured, stageA, stageB, stageC, searcher,
    scoring, textutil>>

\* the variables of the components other than with_retry
outsideRetrier == <<orchestrator, gateway, structured, stageA, stageB, stageC, searcher,
    scoring, textutil>>

\* the variables of the components other than the Gateway and
\* complete_structured, which calls it
outsideStructured == <<orchestrator, retrier, stageA, stageB, stageC, searcher,
    scoring, textutil>>

\* the variables Stage A reads or leaves alone: its arguments among them
outsideStageA == <<orchestrator, gateway, retrier, structured, stageB, stageC, searcher,
    scoring, textutil>>

\* the variables Stage B reads or leaves alone
outsideStageB == <<orchestrator, gateway, retrier, structured, stageA, stageC, searcher,
    scoring, textutil>>

\* the variables Stage C reads or leaves alone: the issue among them
outsideStageC == <<orchestrator, gateway, retrier, structured, stageA, stageB,
                   searcher,
    scoring, textutil>>

\* the variables of the components other than the code searcher
outsideSearcher == <<orchestrator, gateway, retrier, structured, stageA, stageB,
                     stageC,
    scoring, textutil>>

\* the variables of the components other than the Scoring Engine
outsideScoring == <<orchestrator, gateway, retrier, structured, stageA, stageB,
                    stageC, searcher, textutil>>

\* the variables of the components other than the text utilities
outsideTextUtil == <<orchestrator, gateway, retrier, structured, stageA, stageB,
                     stageC, searcher, scoring>>

scenario == <<entry, issuesIn, failing, top_issues, selected_issue_number,
              argIssue, status_callback>>

\* ----------------------------------------------------------- Stage A (rank)
\* list.sort(key=total, reverse=True): stable, descending
RECURSIVE InsertDesc(_, _)
InsertDesc(sorted, x) ==
    IF sorted = <<>> THEN <<x>>
    ELSE IF Head(sorted).total >= x.total
         THEN <<Head(sorted)>> \o InsertDesc(Tail(sorted), x)
         ELSE <<x>> \o sorted

RECURSIVE SortDesc(_)
SortDesc(s) ==
    IF s = <<>> THEN <<>>
    ELSE InsertDesc(SortDesc(SubSeq(s, 1, Len(s) - 1)), s[Len(s)])

\* the slice s[:n]: the first n elements, or all but the last -n when n < 0
Take(s, n) ==
    IF n >= 0 THEN SubSeq(s, 1, Min2(n, Len(s)))
    ELSE SubSeq(s, 1, Max2(0, Len(s) + n))

\* rank_issues without the sort
rank_issues_InputOrder(issues, top_n) == Take(issues, top_n)

rank_issues(issues, top_n) == Take(SortDesc(issues), top_n)

\* TriageNurseAgent.run: the ranking and the selected issue number
Agent1Run(repo, issues, top_n) ==
    LET ranked == IF issues = <<>> THEN <<>> ELSE rank_issues(issues, top_n)
    IN  [repo |-> repo,
         ranked_issues |-> [i \in 1..Len(ranked) |->
                               [number |-> ranked[i].number,
                                score_total |-> ranked[i].total]],
         selected_issue_number |-> IF ranked = <<>> THEN 0 ELSE ranked[1].number]

\* ArchaeologistAgent.run: every output carries the number of the issue given
Agent2Run(issue, repo_path, file_tree) ==
    [issue_number |-> issue.number, repo_path |-> repo_path]

\* SeniorDevAgent.run: built from the issue and the two earlier outputs
Agent3Run(repo, issue, a1, a2) ==
    [issue_number |-> issue.number,
     code_for |-> a2.issue_number,
     ranked |-> Len(a1.ranked_issues)]

\* -------------------------------------------------------------- run record
RunLog(ts, url, sel, a1, a2, a3, dur) ==
    [timestamp |-> ts, repo_url |-> url, selected_issue |-> sel,
     agent1_output |-> Some(a1), agent2_output |-> Some(a2),
     agent3_output |-> Some(a3), duration_seconds |-> dur, error |-> None]

\* strftime("%Y%m%d_%H%M%S"): the file name has a resolution of one second
FileNameAt(t) == t \div TicksPerSecond

\* open(log_file, "w"): creates the file or truncates an existing one
WriteFile(files, name, content) ==
    [n \in DOMAIN files \cup {name} |-> IF n = name THEN content ELSE files[n]]

save_run_log(files, run_log, now) == WriteFile(files, FileNameAt(now), run_log)

\* ------------------------------------------------------- results of a call
NoResult ==
    [success |-> FALSE, error |-> None, repo |-> None, issues |-> None,
     target_issue |-> None, agent1_output |-> None, agent2_output |-> None,
     agent3_output |-> None, duration_seconds |-> None, repo_path |-> None]

Failure(msg) == [NoResult EXCEPT !.error = Some(msg)]

NoLocals ==
    [start_time |-> 0, error |-> None, repo |-> None, issues |-> None,
     repo_path |-> None, file_tree |-> None, agent1_output |-> None,
     target_issue_number |-> 0, target_issue |-> None,
     agent2_output |-> None, agent3_output |-> None, run_log |-> None]

Raises(op) == failing = op

ObserverMayRaise(c) == status_callback[c] = "raises"

ExceptionText(what) == what \o " failed"

Return(c, r) ==
    /\ pc' = [pc EXCEPT ![c] = "returned"]
    /\ result' = [result EXCEPT ![c] = Some(r)]

\* except Exception as e in run(): error = str(e), a status notification,
\* then the failure result; the notification itself may raise
RunExcept(c, what, newOps) ==
    /\ ops' = [ops EXCEPT ![c] = newOps]
    /\ local' = [local EXCEPT ![c].error = Some(ExceptionText(what))]
    /\ \/ /\ ObserverMayRaise(c)
          /\ pc' = [pc EXCEPT ![c] = "raised"]
          /\ result' = result
       \/ Return(c, Failure(ExceptionText(what)))
    /\ UNCHANGED <<clock, store, scenario, elsewhere>>

\* except Exception as e in run_phase1/2/3: the failure result, no notification
PhaseExcept(c, what, newOps) ==
    /\ ops' = [ops EXCEPT ![c] = newOps]
    /\ local' = [local EXCEPT ![c].error = Some(ExceptionText(what))]
    /\ Return(c, Failure(ExceptionText(what)))
    /\ UNCHANGED <<clock, store, scenario, elsewhere>>

\* ------------------------------------------------------------------- run()
RunStart(c) ==
    /\ pc[c] = "idle"
    /\ entry[c] = "run"
    /\ pc' = [pc EXCEPT ![c] = "get_repo"]
    /\ local' = [local EXCEPT ![c].start_time = clock]
    /\ UNCHANGED <<clock, store, scenario, elsewhere, ops, result>>

RunGetRepo(c) ==
    /\ pc[c] = "get_repo"
    /\ \/ ObserverMayRaise(c) /\ RunExcept(c, "observer", ops[c])
       \/ Raises("get_repo") /\ RunExcept(c, "get_repo", Append(ops[c], "get_repo"))
       \/ /\ ~Raises("get_repo")
          /\ ops' = [ops EXCEPT ![c] = Append(@, "get_repo")]
          /\ local' = [local EXCEPT ![c].repo = Some(TheRepo)]
          /\ pc' = [pc EXCEPT ![c] = "get_issues"]
          /\ UNCHANGED <<clock, store, scenario, elsewhere, result>>

\* AfterIssues with the clone step left out
AfterIssues_SkipsClone(issues) == IF issues = <<>> THEN "no_issues" ELSE "get_file_tree"

\* where run() goes once get_issues returned
AfterIssues(issues) == IF issues = <<>> THEN "no_issues" ELSE "clone_repo"

RunGetIssues(c) ==
    /\ pc[c] = "get_issues"
    /\ \/ ObserverMayRaise(c) /\ RunExcept(c, "observer", ops[c])
       \/ Raises("get_issues") /\ RunExcept(c, "get_issues", Append(ops[c], "get_issues"))
       \/ /\ ~Raises("get_issues")
          /\ ops' = [ops EXCEPT ![c] = Append(@, "get_issues")]
          /\ local' = [local EXCEPT ![c].issues = Some(issuesIn)]
          /\ pc' = [pc EXCEPT ![c] = AfterIssues(issuesIn)]
          /\ UNCHANGED <<clock, store, scenario, elsewhere, result>>

RunNoIssues(c) ==
    /\ pc[c] = "no_issues"
    /\ \/ ObserverMayRaise(c) /\ RunExcept(c, "observer", ops[c])
       \/ /\ Return(c, [Failure(NoIssuesMessage) EXCEPT !.repo = local[c].repo])
          /\ UNCHANGED <<clock, store, scenario, elsewhere, local, ops>>

RunClone(c) ==
    /\ pc[c] = "clone_repo"
    /\ \/ ObserverMayRaise(c) /\ RunExcept(c, "observer", ops[c])
       \/ Raises("clone_repo") /\ RunExcept(c, "clone_repo", Append(ops[c], "clone_repo"))
       \/ /\ ~Raises("clone_repo")
          /\ ops' = [ops EXCEPT ![c] = Append(@, "clone_repo")]
          /\ local' = [local EXCEPT ![c].repo_path = Some(TheRepoPath)]
          /\ pc' = [pc EXCEPT ![c] = "get_file_tree"]
          /\ UNCHANGED <<clock, store, scenario, elsewhere, result>>

RunFileTree(c) ==
    /\ pc[c] = "get_file_tree"
    /\ \/ ObserverMayRaise(c) /\ RunExcept(c, "observer", ops[c])
       \/ Raises("get_file_tree") /\ RunExcept(c, "get_file_tree", Append(ops[c], "get_file_tree"))
       \/ /\ ~Raises("get_file_tree")
          /\ ops' = [ops EXCEPT ![c] = Append(@, "get_file_tree")]
          /\ local' = [local EXCEPT ![c].file_tree = Some(TheFileTree)]
          /\ pc' = [pc EXCEPT ![c] = "agent1"]
          /\ UNCHANGED <<clock, store, scenario, elsewhere, result>>

\* target selection of run(): the requested number when it is truthy, else
\* Stage A's selection; when no fetched issue has that number, the top-ranked
FirstWithNumber(issues, n) ==
    LET hits == {i \in 1..Len(issues) : issues[i].number = n}
    IN  IF hits = {} THEN None
        ELSE Some(issues[CHOOSE i \in hits : \A j \in hits : i <= j])

\* TargetNumber always taking Stage A's top-ranked issue
TargetNumber_IgnoresRequest(sel, a1, issues) ==
    a1.ranked_issues[1].number

TargetNumber(sel, a1, issues) ==
    LET wanted == IF sel # 0 THEN sel ELSE a1.selected_issue_number
    IN  IF FirstWithNumber(issues, wanted) # None THEN wanted
        ELSE a1.ranked_issues[1].number

TargetIssue(sel, a1, issues) ==
    FirstWithNumber(issues, TargetNumber(sel, a1, issues))

\* where run() goes once Stage A returned
AfterAgent1(a1) == IF a1.ranked_issues = <<>> THEN "unranked" ELSE "agent2"

RunAgent1(c) ==
    /\ pc[c] = "agent1"
    /\ \/ ObserverMayRaise(c) /\ RunExcept(c, "observer", ops[c])
       \/ Raises("agent1.run") /\ RunExcept(c, "agent1.run", Append(ops[c], "agent1.run"))
       \/ /\ ~Raises("agent1.run")
          /\ LET a1 == Agent1Run(local[c].repo[1], local[c].issues[1], top_issues)
             IN  /\ ops' = [ops EXCEPT ![c] = Append(@, "agent1.run")]
                 /\ IF AfterAgent1(a1) = "unranked"
                    THEN /\ local' = [local EXCEPT ![c].agent1_output = Some(a1)]
                         /\ Return(c, [Failure(CouldNotRankMessage) EXCEPT
                                          !.repo = local[c].repo,
                                          !.agent1_output = Some(a1)])
                    ELSE /\ local' = [local EXCEPT
                              ![c].agent1_output = Some(a1),
                              ![c].target_issue_number =
                                  TargetNumber(selected_issue_number, a1, local[c].issues[1]),
                              ![c].target_issue =
                                  TargetIssue(selected_issue_number, a1, local[c].issues[1])]
                         /\ pc' = [pc EXCEPT ![c] = AfterAgent1(a1)]
                         /\ result' = result
          /\ UNCHANGED <<clock, store, scenario, elsewhere>>

RunAgent2(c) ==
    /\ pc[c] = "agent2"
    /\ \/ ObserverMayRaise(c) /\ RunExcept(c, "observer", ops[c])
       \/ Raises("agent2.run") /\ RunExcept(c, "agent2.run", Append(ops[c], "agent2.run"))
       \/ /\ ~Raises("agent2.run")
          /\ ops' = [ops EXCEPT ![c] = Append(@, "agent2.run")]
          /\ local' = [local EXCEPT ![c].agent2_output =
                 Some(Agent2Run(local[c].target_issue[1], local[c].repo_path[1],
                                local[c].file_tree[1]))]
          /\ pc' = [pc EXCEPT ![c] = "agent3"]
          /\ UNCHANGED <<clock, store, scenario, elsewhere, result>>

RunAgent3(c) ==
    /\ pc[c] = "agent3"
    /\ \/ ObserverMayRaise(c) /\ RunExcept(c, "observer", ops[c])
       \/ Raises("agent3.run") /\ RunExcept(c, "agent3.run", Append(ops[c], "agent3.run"))
       \/ /\ ~Raises("agent3.run")
          /\ ops' = [ops EXCEPT ![c] = Append(@, "agent3.run")]
          /\ local' = [local EXCEPT ![c].agent3_output =
                 Some(Agent3Run(local[c].repo[1], local[c].target_issue[1],
                                local[c].agent1_output[1], local[c].agent2_output[1]))]
          /\ pc' = [pc EXCEPT ![c] = "save"]
          /\ UNCHANGED <<clock, store, scenario, elsewhere, result>>

\* MakeRunLog recording Stage A's selection instead of the analysed issue
MakeRunLog_StageASelection(l, dur) ==
    RunLog(l.start_time, RepoUrl, l.agent1_output[1].selected_issue_number,
           l.agent1_output[1], l.agent2_output[1], l.agent3_output[1], dur)

\* the RunLog run() builds from its locals
MakeRunLog(l, dur) ==
    RunLog(l.start_time, RepoUrl, l.target_issue_number, l.agent1_output[1],
           l.agent2_output[1], l.agent3_output[1], dur)

\* the success result of run()
SuccessResult(l, dur) ==
    [NoResult EXCEPT !.success = TRUE, !.repo = l.repo, !.issues = l.issues,
                     !.target_issue = l.target_issue,
                     !.agent1_output = l.agent1_output,
                     !.agent2_output = l.agent2_output,
                     !.agent3_output = l.agent3_output,
                     !.duration_seconds = Some(dur)]

RunSave(c) ==
    /\ pc[c] = "save"
    /\ \/ ObserverMayRaise(c) /\ RunExcept(c, "observer", ops[c])
       \/ Raises("save_run_log") /\ RunExcept(c, "save_run_log", Append(ops[c], "save_run_log"))
       \/ /\ ~Raises("save_run_log")
          /\ LET dur == clock - local[c].start_time
                 log == MakeRunLog(local[c], dur)
             IN  /\ ops' = [ops EXCEPT ![c] = Append(@, "save_run_log")]
                 /\ local' = [local EXCEPT ![c].run_log = Some(log)]
                 /\ store' = save_run_log(store, log, clock)
                 /\ Return(c, SuccessResult(local[c], dur))
          /\ UNCHANGED <<clock, scenario, elsewhere>>

Tick ==
    /\ clock < MaxClock
    /\ clock' = clock + 1
    /\ UNCHANGED <<store, scenario, elsewhere, pc, local, ops, result>>

Run(c) ==
    \/ RunStart(c)
    \/ RunGetRepo(c)
    \/ RunGetIssues(c)
    \/ RunNoIssues(c)
    \/ RunClone(c)
    \/ RunFileTree(c)
    \/ RunAgent1(c)
    \/ RunAgent2(c)
    \/ RunAgent3(c)
    \/ RunSave(c)

\* ------------------------------------------------------------ run_phase1()
Phase1Start(c) ==
    /\ pc[c] = "idle"
    /\ entry[c] = "run_phase1"
    /\ pc' = [pc EXCEPT ![c] = "p1_get_repo"]
    /\ UNCHANGED <<clock, store, scenario, elsewhere, local, ops, result>>

Phase1GetRepo(c) ==
    /\ pc[c] = "p1_get_repo"
    /\ \/ ObserverMayRaise(c) /\ PhaseExcept(c, "observer", ops[c])
       \/ Raises("get_repo") /\ PhaseExcept(c, "get_repo", Append(ops[c], "get_repo"))
       \/ /\ ~Raises("get_repo")
          /\ ops' = [ops EXCEPT ![c] = Append(@, "get_repo")]
          /\ local' = [local EXCEPT ![c].repo = Some(TheRepo)]
          /\ pc' = [pc EXCEPT ![c] = "p1_get_issues"]
          /\ UNCHANGED <<clock, store, scenario, elsewhere, result>>

Phase1GetIssues(c) ==
    /\ pc[c] = "p1_get_issues"
    /\ \/ ObserverMayRaise(c) /\ PhaseExcept(c, "observer", ops[c])
       \/ Raises("get_issues") /\ PhaseExcept(c, "get_issues", Append(ops[c], "get_issues"))
       \/ /\ ~Raises("get_issues")
          /\ ops' = [ops EXCEPT ![c] = Append(@, "get_issues")]
          /\ local' = [local EXCEPT ![c].issues = Some(issuesIn)]
          /\ IF issuesIn = <<>>
             THEN Return(c, [Failure(NoIssuesMessagePhase1) EXCEPT !.repo = local[c].repo])
             ELSE pc' = [pc EXCEPT ![c] = "p1_agent1"] /\ result' = result
          /\ UNCHANGED <<clock, store, scenario, elsewhere>>

Phase1Agent1(c) ==
    /\ pc[c] = "p1_agent1"
    /\ \/ ObserverMayRaise(c) /\ PhaseExcept(c, "observer", ops[c])
       \/ Raises("agent1.run") /\ PhaseExcept(c, "agent1.run", Append(ops[c], "agent1.run"))
       \/ /\ ~Raises("agent1.run")
          /\ LET a1 == Agent1Run(local[c].repo[1], local[c].issues[1], top_issues)
             IN  /\ ops' = [ops EXCEPT ![c] = Append(@, "agent1.run")]
                 /\ local' = [local EXCEPT ![c].agent1_output = Some(a1)]
                 /\ Return(c, [NoResult EXCEPT !.success = TRUE,
                                               !.repo = local[c].repo,
                                               !.issues = local[c].issues,
                                               !.agent1_output = Some(a1)])
          /\ UNCHANGED <<clock, store, scenario, elsewhere>>

Phase1(c) ==
    \/ Phase1Start(c)
    \/ Phase1GetRepo(c)
    \/ Phase1GetIssues(c)
    \/ Phase1Agent1(c)

\* ------------------------------------------------------------ run_phase2()
Phase2Start(c) ==
    /\ pc[c] = "idle"
    /\ entry[c] = "run_phase2"
    /\ pc' = [pc EXCEPT ![c] = "p2_clone_repo"]
    /\ UNCHANGED <<clock, store, scenario, elsewhere, local, ops, result>>

\* Phase2Clone fetching the repository metadata again before cloning
Phase2Clone_Refetches(c) ==
    /\ pc[c] = "p2_clone_repo"
    /\ ops' = [ops EXCEPT ![c] = @ \o <<"get_repo", "clone_repo">>]
    /\ local' = [local EXCEPT ![c].repo = Some(TheRepo),
                              ![c].repo_path = Some(TheRepoPath)]
    /\ pc' = [pc EXCEPT ![c] = "p2_get_file_tree"]
    /\ UNCHANGED <<clock, store, scenario, elsewhere, result>>

Phase2Clone(c) ==
    /\ pc[c] = "p2_clone_repo"
    /\ \/ ObserverMayRaise(c) /\ PhaseExcept(c, "observer", ops[c])
       \/ Raises("clone_repo") /\ PhaseExcept(c, "clone_repo", Append(ops[c], "clone_repo"))
       \/ /\ ~Raises("clone_repo")
          /\ ops' = [ops EXCEPT ![c] = Append(@, "clone_repo")]
          /\ local' = [local EXCEPT ![c].repo_path = Some(TheRepoPath)]
          /\ pc' = [pc EXCEPT ![c] = "p2_get_file_tree"]
          /\ UNCHANGED <<clock, store, scenario, elsewhere, result>>

Phase2FileTree(c) ==
    /\ pc[c] = "p2_get_file_tree"
    /\ \/ ObserverMayRaise(c) /\ PhaseExcept(c, "observer", ops[c])
       \/ Raises("get_file_tree") /\ PhaseExcept(c, "get_file_tree", Append(ops[c], "get_file_tree"))
       \/ /\ ~Raises("get_file_tree")
          /\ ops' = [ops EXCEPT ![c] = Append(@, "get_file_tree")]
          /\ local' = [local EXCEPT ![c].file_tree = Some(TheFileTree)]
          /\ pc' = [pc EXCEPT ![c] = "p2_agent2"]
          /\ UNCHANGED <<clock, store, scenario, elsewhere, result>>

Phase2Agent2(c) ==
    /\ pc[c] = "p2_agent2"
    /\ \/ ObserverMayRaise(c) /\ PhaseExcept(c, "observer", ops[c])
       \/ Raises("agent2.run") /\ PhaseExcept(c, "agent2.run", Append(ops[c], "agent2.run"))
       \/ /\ ~Raises("agent2.run")
          /\ LET a2 == Agent2Run(argIssue, local[c].repo_path[1], local[c].file_tree[1])
             IN  /\ ops' = [ops EXCEPT ![c] = Append(@, "agent2.run")]
                 /\ local' = [local EXCEPT ![c].agent2_output = Some(a2)]
                 /\ Return(c, [NoResult EXCEPT !.success = TRUE,
                                               !.agent2_output = Some(a2),
                                               !.repo_path = local[c].repo_path])
          /\ UNCHANGED <<clock, store, scenario, elsewhere>>

Phase2(c) ==
    \/ Phase2Start(c)
    \/ Phase2Clone(c)
    \/ Phase2FileTree(c)
    \/ Phase2Agent2(c)

\* ------------------------------------------------------------ run_phase3()
\* the earlier outputs a caller of run_phase3 passes in: those of the
\* earlier phases for the same scenario
CallerAgent1Output == Agent1Run(TheRepo, issuesIn, top_issues)

CallerAgent2Output == Agent2Run(argIssue, TheRepoPath, TheFileTree)

Phase3Start(c) ==
    /\ pc[c] = "idle"
    /\ entry[c] = "run_phase3"
    /\ pc' = [pc EXCEPT ![c] = "p3_agent3"]
    /\ UNCHANGED <<clock, store, scenario, elsewhere, local, ops, result>>

Phase3Agent3(c) ==
    /\ pc[c] = "p3_agent3"
    /\ \/ ObserverMayRaise(c) /\ PhaseExcept(c, "observer", ops[c])
       \/ Raises("agent3.run") /\ PhaseExcept(c, "agent3.run", Append(ops[c], "agent3.run"))
       \/ /\ ~Raises("agent3.run")
          /\ LET a3 == Agent3Run(TheRepo, argIssue, CallerAgent1Output, CallerAgent2Output)
             IN  /\ ops' = [ops EXCEPT ![c] = Append(@, "agent3.run")]
                 /\ local' = [local EXCEPT ![c].agent3_output = Some(a3)]
                 /\ Return(c, [NoResult EXCEPT !.success = TRUE,
                                               !.agent3_output = Some(a3)])
          /\ UNCHANGED <<clock, store, scenario, elsewhere>>

Phase3(c) ==
    \/ Phase3Start(c)
    \/ Phase3Agent3(c)

\* ------------------------------------------------- language-model gateway
\* @retry(stop=stop_after_attempt(5), wait=wait_exponential(multiplier=2, min=4, max=60))
GatewayMaxAttempts == 5
WaitMultiplier == 2
WaitExpBase == 2
WaitMin == 4
WaitMax == 60

RECURSIVE Pow(_, _)
Pow(b, e) == IF e = 0 THEN 1 ELSE b * Pow(b, e - 1)

\* what one session.post can produce: a network error, or a response with a
\* status code and a body
HttpStatuses == {200, 429, 400, 401, 500, 503}

Bodies == {"completion", "json_without_choices", "not_json"}

NetworkErrors == {"timeout", "connection_error"}

UpstreamOutcomes ==
    {[net |-> e, status |-> 0, body |-> "none"] : e \in NetworkErrors} \cup
    {[net |-> "ok", status |-> st, body |-> "none"] : st \in HttpStatuses \ {200}} \cup
    {[net |-> "ok", status |-> 200, body |-> b] : b \in Bodies}

RateLimited(o) == o.net = "ok" /\ o.status = 429

OtherUpstreamFailure(o) == o.net # "ok" \/ o.status \notin {200, 429}

\* resp.json() on a body that is not JSON raises requests' JSONDecodeError
\* (a RequestException, turned into GroqAPIError) or, with older releases of
\* the library, a plain ValueError
NotJsonErrors == {"GroqAPIError", "ValueError"}

\* one execution of the body of _make_request: the exceptions it can raise,
\* "" when it returns resp.json()
MakeRequestRaises(o) ==
    IF o.net # "ok" THEN {"GroqAPIError"}
    ELSE IF o.status = 429 THEN {"GroqRateLimitError"}
    ELSE IF o.status # 200 THEN {"GroqAPIError"}
    ELSE IF o.body = "not_json" THEN NotJsonErrors
    ELSE {""}

\* ShouldRetry retrying on every exception
ShouldRetry_AnyException(exc) == TRUE

\* retry=retry_if_exception_type(GroqRateLimitError)
ShouldRetry(exc) == exc = "GroqRateLimitError"

\* ShouldStop allowing one attempt more
ShouldStop_OneLater(attempt) == attempt >= GatewayMaxAttempts + 1

\* stop=stop_after_attempt(5)
ShouldStop(attempt) == attempt >= GatewayMaxAttempts

\* wait=wait_exponential(multiplier=2, min=4, max=60) after the given attempt
WaitAfter(attempt) ==
    Max2(Max2(0, WaitMin),
         Min2(WaitMultiplier * Pow(WaitExpBase, attempt - 1), WaitMax))

\* complete(): the payload it builds from its arguments
Payload(has_system_prompt, json_mode) ==
    [messages |-> IF has_system_prompt THEN <<"system", "user">> ELSE <<"user">>,
     response_format |-> IF json_mode THEN Some("json_object") ELSE None]

GwComplete ==
    /\ gw_pc = "idle"
    /\ \E sp \in BOOLEAN, jm \in BOOLEAN : gw_payload' = Some(Payload(sp, jm))
    /\ gw_pc' = "request"
    /\ gw_attempt' = 1
    /\ UNCHANGED <<gw_trace, gw_waits, gw_result, outsideGateway>>

\* one attempt of _make_request and the retry controller's decision on it
GwAttempt ==
    /\ gw_pc = "request"
    /\ \E o \in UpstreamOutcomes : \E exc \in MakeRequestRaises(o) :
          /\ gw_trace' = Append(gw_trace, o)
          /\ IF exc = ""
             THEN gw_pc' = "extract" /\ gw_result' = gw_result
             ELSE IF ~ShouldRetry(exc)
             THEN gw_pc' = "raised" /\ gw_result' = Some(exc)
             ELSE IF ShouldStop(gw_attempt)
             THEN gw_pc' = "raised" /\ gw_result' = Some("RetryError")
             ELSE gw_pc' = "sleep" /\ gw_result' = gw_result
    /\ UNCHANGED <<gw_payload, gw_attempt, gw_waits, outsideGateway>>

\* the backoff between two attempts
GwSleep ==
    /\ gw_pc = "sleep"
    /\ gw_waits' = Append(gw_waits, WaitAfter(gw_attempt))
    /\ gw_attempt' = gw_attempt + 1
    /\ gw_pc' = "request"
    /\ UNCHANGED <<gw_payload, gw_trace, gw_result, outsideGateway>>

\* complete(): response["choices"][0]["message"]["content"]
GwExtract ==
    /\ gw_pc = "extract"
    /\ IF gw_trace[Len(gw_trace)].body = "completion"
       THEN gw_pc' = "returned" /\ gw_result' = Some("content")
       ELSE gw_pc' = "raised" /\ gw_result' = Some("KeyError")
    /\ UNCHANGED <<gw_payload, gw_attempt, gw_trace, gw_waits, outsideGateway>>

GatewayIdle ==
    /\ gw_payload = None
    /\ gw_pc = "idle"
    /\ gw_attempt = 0
    /\ gw_trace = <<>>
    /\ gw_waits = <<>>
    /\ gw_result = None

\* ------------------------------------------------------------ with_retry
\* the arguments a caller can give the decorator: delays in whole seconds;
\* retry_exceptions is (Exception,) by default, or one exception class
RetryPolicies ==
    [max_attempts : 0..MaxRetryAttempts, initial_delay : {1, 3},
     max_delay : {2, 4}, exponential_base : {1, 2},
     retry_exceptions : {"Exception", "GroqRateLimitError"}]

\* what one invocation of the wrapped function can do: return ("") or raise
FuncOutcomes == {"", "GroqRateLimitError", "GroqAPIError"}

\* except retry_exceptions as e
Caught(policy, exc) ==
    policy.retry_exceptions = "Exception" \/ policy.retry_exceptions = exc

\* MoreAttempts with the loop giving up one attempt early
MoreAttempts_OneFewer(policy, attempt) == attempt < policy.max_attempts - 2

\* if attempt < max_attempts - 1
MoreAttempts(policy, attempt) == attempt < policy.max_attempts - 1

\* delay = min(delay * exponential_base, max_delay)
NextDelay(policy, delay) == Min2(delay * policy.exponential_base, policy.max_delay)

\* the wrapper is entered: delay = initial_delay, and the loop body runs at
\* all only when range(max_attempts) is not empty; otherwise the wrapper
\* reaches "raise last_exception" with last_exception = None
WrCall ==
    /\ wr_pc = "idle"
    /\ \E policy \in RetryPolicies :
          /\ wr_policy' = Some(policy)
          /\ wr_delay' = policy.initial_delay
          /\ IF policy.max_attempts > 0
             THEN wr_pc' = "call" /\ wr_result' = wr_result
             ELSE wr_pc' = "raised" /\ wr_result' = Some("TypeError")
    /\ wr_attempt' = 0
    /\ UNCHANGED <<wr_trace, wr_waits, outsideRetrier>>

\* one iteration of the loop up to the sleep: func is invoked; its value is
\* returned, an exception outside retry_exceptions propagates, and a caught
\* one is re-raised after the last iteration
WrInvoke ==
    /\ wr_pc = "call"
    /\ \E o \in FuncOutcomes :
          /\ wr_trace' = Append(wr_trace, o)
          /\ IF o = ""
             THEN wr_pc' = "returned" /\ wr_result' = Some("value")
             ELSE IF ~Caught(wr_policy[1], o)
             THEN wr_pc' = "raised" /\ wr_result' = Some(o)
             ELSE IF MoreAttempts(wr_policy[1], wr_attempt)
             THEN wr_pc' = "sleep" /\ wr_result' = wr_result
             ELSE wr_pc' = "raised" /\ wr_result' = Some(o)
    /\ UNCHANGED <<wr_policy, wr_attempt, wr_delay, wr_waits, outsideRetrier>>

\* time.sleep(delay), the new delay, and the next value of attempt
WrSleep ==
    /\ wr_pc = "sleep"
    /\ wr_waits' = Append(wr_waits, wr_delay)
    /\ wr_delay' = NextDelay(wr_policy[1], wr_delay)
    /\ wr_attempt' = wr_attempt + 1
    /\ wr_pc' = "call"
    /\ UNCHANGED <<wr_policy, wr_trace, wr_result, outsideRetrier>>

\* ----------------------------------------------------- complete_structured
\* a response text, as its lines: a line is a Markdown fence (three
\* backquotes, with or without a language tag), a JSON document (named by
\* what it parses to), prose, or empty
Fences == {"fence json", "fence"}

JsonDocuments == {"valid_object", "wrong_shape_object", "array"}

ResponseTexts ==
    {<<d>> : d \in JsonDocuments \cup {"prose", ""}} \cup
    {<<f, d, "fence">> : f \in Fences, d \in JsonDocuments} \cup
    {<<"fence json", d>> : d \in JsonDocuments} \cup
    {<<"prose", d>> : d \in JsonDocuments}

\* if clean_response.startswith(fence): "\n".join(lines[1:-1])
StripFence(lines) ==
    IF lines[1] \in Fences THEN SubSeq(lines, 2, Len(lines) - 1) ELSE lines

\* json.loads: the parsed document, or None for JSONDecodeError
JsonLoads(lines) ==
    IF Len(lines) = 1 /\ lines[1] \in JsonDocuments THEN Some(lines[1]) ELSE None

\* response_model.model_validate(data) succeeds
ModelValidates(data) == data = "valid_object"

\* class GroqAPIError(Exception): pass -- an exception built from a message
\* only; a raw response could be carried only in a further field
GroqAPIError(message) ==
    [raised |-> TRUE, kind |-> "GroqAPIError", message |-> message, response |-> None]

\* an exception of complete() passing through complete_structured
Propagated(kind) ==
    [raised |-> TRUE, kind |-> kind, message |-> <<>>, response |-> None]

Instance == [raised |-> FALSE, kind |-> "instance", message |-> <<>>, response |-> None]

\* the call of complete(..., max_tokens=8192, json_mode=True): the system
\* prompt is always present, the schema instructions being part of it
StCall ==
    /\ st_pc = "idle"
    /\ gw_pc = "idle"
    /\ st_system_prompt' \in {Some(TRUE), Some(FALSE)}
    /\ st_pc' = "complete"
    /\ gw_payload' = Some(Payload(TRUE, TRUE))
    /\ gw_pc' = "request"
    /\ gw_attempt' = 1
    /\ UNCHANGED <<st_response, st_result, gw_trace, gw_waits, gw_result, outsideStructured>>

\* complete() is over: its exception leaves complete_structured as it is, its
\* value is the text the model wrote
StReceive ==
    /\ st_pc = "complete"
    /\ \/ /\ gw_pc = "raised"
          /\ st_pc' = "raised"
          /\ st_result' = Some(Propagated(gw_result[1]))
          /\ UNCHANGED st_response
       \/ /\ gw_pc = "returned"
          /\ st_pc' = "parse"
          /\ st_response' \in {Some(t) : t \in ResponseTexts}
          /\ UNCHANGED st_result
    /\ UNCHANGED <<st_system_prompt, gateway, outsideStructured>>

\* the try block: strip, unfence, json.loads, model_validate, and both handlers
StParse ==
    /\ st_pc = "parse"
    /\ LET data == JsonLoads(StripFence(st_response[1]))
       IN  IF data = None
           THEN /\ st_pc' = "raised"
                /\ st_result' = Some(GroqAPIError(<<"Invalid JSON response: ", "JSONDecodeError">>))
           ELSE IF ~ModelValidates(data[1])
           THEN /\ st_pc' = "raised"
                /\ st_result' = Some(GroqAPIError(<<"Validation failed: ", "ValidationError">>))
           ELSE /\ st_pc' = "returned"
                /\ st_result' = Some(Instance)
    /\ UNCHANGED <<st_system_prompt, st_response, gateway, outsideStructured>>

\* ------------------------------------------------- Stage A (justifications)
\* score_issue joins the reasons of its five sub-scores, each of which gives
\* at least one except the activity score: four reasons or more
BaseReasonLists ==
    {<<"base1", "base2", "base3", "base4">>,
     <<"base1", "base2", "base3", "base4", "base5">>}

DefaultReasons == [n \in 1..MaxIssues |-> <<"base1", "base2", "base3", "base4">>]

\* the items of a JSON array: strings, and values that are not strings
StringItems == {"llm1", "llm2", "llm3", "llm4", "llm5"}

NonStringItems == {"number 7"}

\* what the call of complete() in _enhance_reasons can do: raise, or return
\* a text that json.loads rejects, or that is JSON but not an object, or an
\* object without "reasons", or with "reasons" an array, a string, a number
EnhanceReplies ==
    {[kind |-> k, items |-> <<>>] :
        k \in {"raises", "not_json", "not_object", "no_key", "string", "number"}} \cup
    {[kind |-> "list", items |-> a] :
        a \in {<<>>, <<"llm1", "llm2", "llm3">>,
               <<"llm1", "llm2", "llm3", "llm4", "llm5">>, <<"llm1", "number 7">>}}

ListValue(items) == [type |-> "list", items |-> items]

\* the slice of a str is a str
StrValue == [type |-> "str", items |-> <<>>]

\* max number of reasons kept: the slice [:4]
MaxReasons == 4

\* FallbackReasons returning all the base reasons
FallbackReasons_Unsliced(base_reasons) == ListValue(base_reasons)

\* except Exception: return base_reasons[:4]
FallbackReasons(base_reasons) == ListValue(Take(base_reasons, MaxReasons))

\* _enhance_reasons: data = json.loads(response);
\* data.get("reasons", base_reasons)[:4], and the handler for whatever raises
EnhanceReasons(reply, base_reasons) ==
    CASE reply.kind = "raises" -> FallbackReasons(base_reasons)
      [] reply.kind = "not_json" -> FallbackReasons(base_reasons)
      [] reply.kind = "not_object" -> FallbackReasons(base_reasons)
      [] reply.kind = "number" -> FallbackReasons(base_reasons)
      [] reply.kind = "no_key" -> ListValue(Take(base_reasons, MaxReasons))
      [] reply.kind = "list" -> ListValue(Take(reply.items, MaxReasons))
      [] reply.kind = "string" -> StrValue

\* RankedIssue(why=...) validates why: List[str]
ValidWhy(v) ==
    /\ v.type = "list"
    /\ \A i \in 1..Len(v.items) : v.items[i] \notin NonStringItems

\* Agent1Output, with the justification of every ranked issue
Agent1Output(ranked_issues) ==
    [raised |-> FALSE,
     ranked_issues |-> ranked_issues,
     selected_issue_number |-> IF ranked_issues = <<>> THEN 0 ELSE ranked_issues[1].number]

Agent1Raised == [raised |-> TRUE, ranked_issues |-> <<>>, selected_issue_number |-> 0]

\* run() up to the loop: the empty result for no issues, else the ranking
A1Start ==
    /\ a1_pc = "idle"
    /\ IF issuesIn = <<>>
       THEN /\ a1_pc' = "returned"
            /\ a1_result' = Some(Agent1Output(<<>>))
            /\ UNCHANGED a1_ranked
       ELSE /\ a1_pc' = "loop"
            /\ a1_ranked' = rank_issues(issuesIn, top_issues)
            /\ UNCHANGED a1_result
    /\ UNCHANGED <<a1_reasons, a1_replies, a1_ranked_issues, outsideStageA>>

\* one iteration of the loop: _enhance_reasons, then RankedIssue(...), whose
\* validation error is raised by run()
A1Enhance ==
    /\ a1_pc = "loop"
    /\ Len(a1_ranked_issues) < Len(a1_ranked)
    /\ \E reply \in EnhanceReplies :
          LET issue == a1_ranked[Len(a1_ranked_issues) + 1]
              enhanced_reasons == EnhanceReasons(reply, a1_reasons[issue.number])
          IN  /\ a1_replies' = Append(a1_replies, reply)
              /\ IF ValidWhy(enhanced_reasons)
                 THEN /\ a1_ranked_issues' =
                            Append(a1_ranked_issues,
                                   [number |-> issue.number,
                                    score_total |-> issue.total,
                                    why |-> enhanced_reasons.items])
                      /\ UNCHANGED <<a1_pc, a1_result>>
                 ELSE /\ a1_pc' = "raised"
                      /\ a1_result' = Some(Agent1Raised)
                      /\ UNCHANGED a1_ranked_issues
    /\ UNCHANGED <<a1_reasons, a1_ranked, outsideStageA>>

\* after the loop: the first ranked issue is selected
A1Return ==
    /\ a1_pc = "loop"
    /\ Len(a1_ranked_issues) = Len(a1_ranked)
    /\ a1_pc' = "returned"
    /\ a1_result' = Some(Agent1Output(a1_ranked_issues))
    /\ UNCHANGED <<a1_reasons, a1_ranked, a1_replies, a1_ranked_issues, outsideStageA>>

\* ------------------------------------------------------ Stage B (locate)
\* extract_keywords(issue_text, max_keywords=10): what it can give
KeywordLists == {<<>>, <<"kw1">>, <<"kw1", "kw2">>}

\* what the call of complete() in _get_search_strategy can do; the items of
\* a "queries" array are strings, or values that are not strings
StrategyReplies ==
    {[kind |-> k, items |-> <<>>] : k \in {"raises", "not_json", "not_object", "no_key", "string"}} \cup
    {[kind |-> "list", items |-> a] :
        a \in {<<>>, <<"q1">>, <<"q1", "kw1">>, <<"q1", "q2", "q3">>, <<"number 7", "q1">>,
               <<"q1", "q2", "q3", "q4", "q5", "number 7">>}}

\* for query in search_strategies[:5]
MaxSearches == 5

\* return queries[:10]
MaxQueries == 10

\* _get_search_strategy: the list returned and the list object keywords
\* after the call; data.get("queries", keywords) is keywords itself when the
\* key is missing, so that queries.extend(keywords) extends keywords
GetSearchStrategy(reply, keywords) ==
    CASE reply.kind = "list" ->
            [queries |-> Take(reply.items \o keywords, MaxQueries), keywords |-> keywords]
      [] reply.kind = "no_key" ->
            [queries |-> Take(keywords \o keywords, MaxQueries),
             keywords |-> keywords \o keywords]
      [] OTHER -> [queries |-> keywords, keywords |-> keywords]

\* searcher.search(query, max_results=10, ...)
SearchMaxResults == 10

\* the lines of the repository a query matches, as (file, line) pairs in the
\* order searcher.search returns them
MatchesOf(query) ==
    CASE query = "q1" -> <<[file_path |-> "a.py", line_number |-> 3],
                           [file_path |-> "b.py", line_number |-> 1]>>
      [] query = "kw1" -> <<[file_path |-> "b.py", line_number |-> 4],
                            [file_path |-> "b.py", line_number |-> 9]>>
      [] query = "q2" -> [i \in 1..SearchMaxResults |->
                             [file_path |-> "c" \o ToString(i) \o ".py", line_number |-> 1]]
      [] query = "q3" -> <<[file_path |-> "d.py", line_number |-> 2],
                           [file_path |-> "d.py", line_number |-> 5]>>
      [] OTHER -> <<>>

\* the loop over search_strategies[:5]: each distinct query is searched once
RECURSIVE SearchAll(_, _)
SearchAll(queries, searched_queries) ==
    IF queries = <<>> THEN <<>>
    ELSE IF Head(queries) \in searched_queries
         THEN SearchAll(Tail(queries), searched_queries)
         ELSE MatchesOf(Head(queries)) \o
              SearchAll(Tail(queries), searched_queries \cup {Head(queries)})

\* the loop over search_strategies[:5] without the test on searched_queries
\* (searcher.search called for each query, repeats included)
RECURSIVE SearchedQueries_NoSkip(_, _)
SearchedQueries_NoSkip(queries, searched_queries) ==
    IF queries = <<>> THEN <<>>
    ELSE IF Head(queries) \in NonStringItems THEN <<Head(queries)>>
    ELSE <<Head(queries)>> \o SearchedQueries_NoSkip(Tail(queries), searched_queries)

\* the queries searcher.search is called with, in order: the loop skips a
\* query already in searched_queries and ends at the call that raises
RECURSIVE SearchedQueries(_, _)
SearchedQueries(queries, searched_queries) ==
    IF queries = <<>> THEN <<>>
    ELSE IF Head(queries) \in searched_queries
         THEN SearchedQueries(Tail(queries), searched_queries)
         ELSE IF Head(queries) \in NonStringItems THEN <<Head(queries)>>
         ELSE <<Head(queries)>> \o
              SearchedQueries(Tail(queries), searched_queries \cup {Head(queries)})

\* searcher.search raises for a query that is not a string (re.compile)
SearchRaises(queries) == \E i \in 1..Len(queries) : queries[i] \in NonStringItems

\* the files of the results in order of first appearance (dict insertion)
RECURSIVE FilesOf(_, _)
FilesOf(results, seen) ==
    IF results = <<>> THEN <<>>
    ELSE IF Head(results).file_path \in seen
         THEN FilesOf(Tail(results), seen)
         ELSE <<Head(results).file_path>> \o
              FilesOf(Tail(results), seen \cup {Head(results).file_path})

MatchCount(results, f) == Cardinality({i \in 1..Len(results) : results[i].file_path = f})

\* sorted(file_hits.items(), key=number of lines, reverse=True): stable
RECURSIVE InsertByCount(_, _, _)
InsertByCount(sorted, f, results) ==
    IF sorted = <<>> THEN <<f>>
    ELSE IF MatchCount(results, Head(sorted)) >= MatchCount(results, f)
         THEN <<Head(sorted)>> \o InsertByCount(Tail(sorted), f, results)
         ELSE <<f>> \o sorted

\* the files left in the order of their first match
SortByCount_FirstSeen(files, results) == files

RECURSIVE SortByCount(_, _)
SortByCount(files, results) ==
    IF files = <<>> THEN <<>>
    ELSE InsertByCount(SortByCount(SubSeq(files, 1, Len(files) - 1), results),
                       files[Len(files)], results)

\* [:10] of the sorted files
MaxHits == 10

\* why_relevant=f"Contains {n} matches for search terms"
MatchCountText(n) == [text |-> "Contains n matches for search terms", n |-> n]

\* a why_relevant taken from a reply
ReplyText(t) == [text |-> t, n |-> 0]

\* the CodeHit list run() builds from all the results
HitsOf(results) ==
    LET sorted_files == Take(SortByCount(FilesOf(results, {}), results), MaxHits)
    IN  [i \in 1..Len(sorted_files) |->
            [path |-> sorted_files[i],
             why_relevant |-> MatchCountText(MatchCount(results, sorted_files[i]))]]

\* what the call of complete() in _analyze_findings can do. An entry of
\* "enhanced_hits" is an object with "why_relevant", an object without it,
\* or a value that is not an object; "confidence" is missing, a string, or
\* not a string; lists_valid says whether "call_trace_hint" and "next_files"
\* are lists of strings or missing
AnalysisReplies ==
    {[kind |-> k, enhanced_hits |-> <<>>, confidence |-> "absent", lists_valid |-> TRUE] :
        k \in {"raises", "not_json", "not_object"}} \cup
    {[kind |-> "object", enhanced_hits |-> e, confidence |-> c, lists_valid |-> v] :
        e \in {<<>>, <<"why">>, <<"why", "not_dict">>, <<"no_why", "why">>},
        c \in {"absent", "High", "Medium", "Low", "Very high", "number 7"},
        v \in BOOLEAN}

\* the index at which the loop over hits raises (enhanced_hits[i].get on a
\* value that is not an object), 0 if it does not
LoopRaisesAt(hits, enhanced_hits) ==
    LET bad == {i \in 1..Min2(Len(hits), Len(enhanced_hits)) : enhanced_hits[i] = "not_dict"}
    IN  IF bad = {} THEN 0 ELSE CHOOSE i \in bad : \A j \in bad : i <= j

\* the hits after the loop: hit.why_relevant is assigned in place, up to the
\* index where the loop raises
EnhanceHits(hits, enhanced_hits) ==
    LET stop == LoopRaisesAt(hits, enhanced_hits)
    IN  [i \in 1..Len(hits) |->
            IF /\ i <= Len(enhanced_hits)
               /\ (stop = 0 \/ i < stop)
               /\ enhanced_hits[i] = "why"
            THEN [hits[i] EXCEPT !.why_relevant = ReplyText("llm why")]
            ELSE hits[i]]

\* Agent2Output(...) validates: search_strategy, call_trace_hint and
\* next_files_to_check are List[str], confidence is str
ValidStrategies(strategies) == \A i \in 1..Len(strategies) : strategies[i] \notin NonStringItems

Agent2Output(keywords, strategies, hits, confidence, from_reply) ==
    [raised |-> FALSE, keywords |-> keywords, search_strategy |-> strategies,
     hits |-> hits, confidence |-> confidence, from_reply |-> from_reply]

Agent2Raised ==
    [raised |-> TRUE, keywords |-> <<>>, search_strategy |-> <<>>,
     hits |-> <<>>, confidence |-> "", from_reply |-> FALSE]

\* data.get("confidence", "Medium")
DefaultConfidence == "Medium"

ConfidenceOf(reply) == IF reply.confidence = "absent" THEN DefaultConfidence ELSE reply.confidence

\* the try block of _analyze_findings runs to its return
AnalysisSucceeds(reply, hits, strategies) ==
    /\ reply.kind = "object"
    /\ LoopRaisesAt(hits, reply.enhanced_hits) = 0
    /\ reply.confidence \notin NonStringItems
    /\ reply.lists_valid
    /\ ValidStrategies(strategies)

\* run() up to the search loop: keywords and _get_search_strategy
B2Strategy ==
    /\ a2_pc = "idle"
    /\ \E keywords \in KeywordLists, reply \in StrategyReplies :
          LET r == GetSearchStrategy(reply, keywords)
          IN  /\ a2_extracted' = keywords
              /\ a2_keywords' = r.keywords
              /\ a2_suggested' = Some(reply)
              /\ a2_strategies' = r.queries
    /\ a2_pc' = "search"
    /\ UNCHANGED <<a2_searched, a2_hits, a2_reply, a2_result, outsideStageB>>

\* the search loop, the grouping by file and the CodeHit list
B2Search ==
    /\ a2_pc = "search"
    /\ LET queries == Take(a2_strategies, MaxSearches)
       IN  /\ a2_searched' = SearchedQueries(queries, {})
           /\ IF SearchRaises(queries)
              THEN /\ a2_pc' = "raised"
                   /\ a2_result' = Some(Agent2Raised)
                   /\ UNCHANGED a2_hits
              ELSE /\ a2_pc' = "analyze"
                   /\ a2_hits' = HitsOf(SearchAll(queries, {}))
                   /\ UNCHANGED a2_result
    /\ UNCHANGED <<a2_extracted, a2_keywords, a2_suggested, a2_strategies, a2_reply,
                   outsideStageB>>

\* _analyze_findings: the hits are the objects of a2_hits, in the try block
\* and in the handler alike
B2Analyze ==
    /\ a2_pc = "analyze"
    /\ \E reply \in AnalysisReplies :
          /\ a2_reply' = Some(reply)
          /\ a2_hits' = IF reply.kind = "object"
                        THEN EnhanceHits(a2_hits, reply.enhanced_hits)
                        ELSE a2_hits
          /\ IF AnalysisSucceeds(reply, a2_hits, a2_strategies)
             THEN /\ a2_pc' = "returned"
                  /\ a2_result' = Some(Agent2Output(a2_keywords, a2_strategies, a2_hits',
                                                    ConfidenceOf(reply), TRUE))
             ELSE IF ValidStrategies(a2_strategies)
             THEN /\ a2_pc' = "returned"
                  /\ a2_result' = Some(Agent2Output(a2_keywords, a2_strategies, a2_hits',
                                                    DefaultConfidence, FALSE))
             ELSE /\ a2_pc' = "raised"
                  /\ a2_result' = Some(Agent2Raised)
    /\ UNCHANGED <<a2_extracted, a2_keywords, a2_suggested, a2_strategies, a2_searched,
                   outsideStageB>>

\* ------------------------------------------------------ Stage C (briefing)
\* what the call of complete() in _generate_briefing can do: raise, or
\* return the document
BriefingReplies ==
    {[kind |-> "raises", text |-> ""]} \cup
    {[kind |-> "text", text |-> t] : t \in {"briefing document", ""}}

\* what the call of complete() in _generate_pr_draft can do; a field of the
\* reply is missing, a string, or not a string
DraftReplies ==
    {[kind |-> k, commit_message |-> "absent", pr_title |-> "absent", pr_body |-> "absent"] :
        k \in {"raises", "not_json", "not_object"}} \cup
    {[kind |-> "object", commit_message |-> c, pr_title |-> t, pr_body |-> b] :
        c \in {"absent", "llm text", "number 7"},
        t \in {"absent", "llm text", "number 7"},
        b \in {"absent", "llm text", "number 7"}}

\* f"fix/{issue.number}-{title_slug}" and f"fix/{issue.number}"
BranchName(number, slug) == [prefix |-> "fix/", number |-> number, slug |-> slug]

\* the PRDraft of the handler
DefaultPRDraft(issue) ==
    [branch_name |-> BranchName(issue.number, ""),
     commit_message |-> "fix: resolve issue #N",
     pr_title |-> "Fix: title",
     pr_body |-> "Description, Changes TODO, Testing TODO"]

FieldOr(value, default) == IF value = "absent" THEN default ELSE value

\* _generate_pr_draft: the PRDraft of the try block when the reply is an
\* object whose fields present are strings, else the handler's
GeneratePRDraft(reply, issue) ==
    IF /\ reply.kind = "object"
       /\ {reply.commit_message, reply.pr_title, reply.pr_body} \cap NonStringItems = {}
    THEN [branch_name |-> BranchName(issue.number, "-title-slug"),
          commit_message |-> FieldOr(reply.commit_message, "fix: resolve issue #N"),
          pr_title |-> FieldOr(reply.pr_title, "Fix: title"),
          pr_body |-> FieldOr(reply.pr_body, "Resolves #N")]
    ELSE DefaultPRDraft(issue)

Agent3Output(briefing, pr_draft) ==
    [raised |-> FALSE, briefing_markdown |-> briefing, pr_draft |-> Some(pr_draft)]

Agent3Raised == [raised |-> TRUE, briefing_markdown |-> "", pr_draft |-> None]

\* _build_context and _generate_briefing, which has no handler: an exception
\* of complete() leaves run()
A3Briefing ==
    /\ a3_pc = "idle"
    /\ \E reply \in BriefingReplies :
          /\ a3_replies' = Append(a3_replies, reply.kind)
          /\ IF reply.kind = "raises"
             THEN /\ a3_pc' = "raised"
                  /\ a3_result' = Some(Agent3Raised)
                  /\ UNCHANGED a3_briefing
             ELSE /\ a3_pc' = "pr_draft"
                  /\ a3_briefing' = Some(reply.text)
                  /\ UNCHANGED a3_result
    /\ UNCHANGED <<a3_pr_draft, outsideStageC>>

A3PrDraft ==
    /\ a3_pc = "pr_draft"
    /\ \E reply \in DraftReplies :
          /\ a3_replies' = Append(a3_replies, reply.kind)
          /\ a3_pr_draft' = Some(GeneratePRDraft(reply, argIssue))
    /\ a3_pc' = "finish"
    /\ UNCHANGED <<a3_briefing, a3_result, outsideStageC>>

\* _generate_test_commands, _identify_risks (no generative call) and the
\* Agent3Output returned
A3Return ==
    /\ a3_pc = "finish"
    /\ a3_pc' = "returned"
    /\ a3_result' = Some(Agent3Output(a3_briefing[1], a3_pr_draft[1]))
    /\ UNCHANGED <<a3_replies, a3_briefing, a3_pr_draft, outsideStageC>>

\* ------------------------------------------------------------- CodeSearcher
\* the repository searched: its files in the order os.walk visits them, each
\* with its top directory and its lines; a line is the sequence of its
\* characters
RepoFiles ==
    <<[file_path |-> "src/a.py", top |-> "src",
       lines |-> << <<"a", "(", "b">>, <<"A", "b">>, <<"b", "b">> >>],
      [file_path |-> "src/b.py", top |-> "src",
       lines |-> << <<"A", "b">>, <<"a", "(", "b">> >>],
      [file_path |-> "venv/v.py", top |-> "venv", lines |-> << <<"a", "(", "b">> >>],
      [file_path |-> ".git/config", top |-> ".git", lines |-> << <<"A", "b">> >>]>>

\* the arguments of search(): the queries are literals, a wildcard, and
\* patterns with an unclosed group
SearchArgs ==
    [query : {<<"a">>, <<"A", "b">>, <<".", "b">>, <<"a", "(">>, <<"(">>, <<"z">>,
              <<"B", "B">>},
     max_results : {0, 1, 2, 10}, case_sensitive : BOOLEAN]

\* re.compile(query) and ripgrep's parser accept the pattern
ValidPattern(query) == "(" \notin Range(query)

\* re.IGNORECASE / -i
Lower(ch) == IF ch = "A" THEN "a" ELSE IF ch = "B" THEN "b" ELSE ch

\* one character of the pattern against one character of the line
AtomMatches(atom, ch, literal, case_sensitive) ==
    IF ~literal /\ atom = "." THEN TRUE
    ELSE IF case_sensitive THEN atom = ch
    ELSE Lower(atom) = Lower(ch)

\* pattern.search(line)
Found(pattern, line, literal, case_sensitive) ==
    \E pos \in 1..(Len(line) - Len(pattern) + 1) :
        \A k \in 1..Len(pattern) :
            AtomMatches(pattern[k], line[pos + k - 1], literal, case_sensitive)

\* the matching lines of one file, in line order
MatchesInFile(file, pattern, literal, case_sensitive) ==
    LET hit(i) == Found(pattern, file.lines[i], literal, case_sensitive)
        nums == SelectSeq([i \in 1..Len(file.lines) |-> i], hit)
    IN  [j \in 1..Len(nums) |-> [file_path |-> file.file_path, line_number |-> nums[j]]]

\* ignore_dirs of the scanner
PythonIgnoreDirs == {".git", "node_modules", "__pycache__", "dist", "build", ".venv", "venv"}

\* the --glob exclusions given to ripgrep
RipgrepExcludes == {".git", "node_modules", "__pycache__", "dist", "build", ".venv"}

\* the matching lines of the files, file by file; with per_file_limit, at
\* most per_file of each file (ripgrep's -m)
RECURSIVE ScanFiles(_, _, _, _, _, _)
ScanFiles(files, pattern, literal, case_sensitive, per_file_limit, per_file) ==
    IF files = <<>> THEN <<>>
    ELSE LET m == MatchesInFile(Head(files), pattern, literal, case_sensitive)
         IN  (IF per_file_limit THEN Take(m, per_file) ELSE m) \o
             ScanFiles(Tail(files), pattern, literal, case_sensitive,
                       per_file_limit, per_file)

\* _search_python without the result cap
SearchPython_Uncapped(args) ==
    LET files == SelectSeq(RepoFiles, LAMBDA f : f.top \notin PythonIgnoreDirs)
    IN  ScanFiles(files, args.query, ~ValidPattern(args.query), args.case_sensitive,
                  FALSE, 0)

\* _search_python without re.IGNORECASE
SearchPython_CaseSensitive(args) ==
    LET files == SelectSeq(RepoFiles, LAMBDA f : f.top \notin PythonIgnoreDirs)
    IN  Take(ScanFiles(files, args.query, ~ValidPattern(args.query), TRUE, FALSE, 0),
             Max2(0, args.max_results))

\* _search_python: an invalid pattern is escaped; the files outside
\* ignore_dirs are read in walk order until max_results lines matched
SearchPython(args) ==
    LET files == SelectSeq(RepoFiles, LAMBDA f : f.top \notin PythonIgnoreDirs)
        all == ScanFiles(files, args.query, ~ValidPattern(args.query),
                         args.case_sensitive, FALSE, 0)
    IN  IF args.max_results <= 0 THEN <<>> ELSE Take(all, args.max_results)

\* the files ripgrep searches: it searches them in parallel, and its output
\* lists them in any order
FileOrders ==
    LET files == SelectSeq(RepoFiles, LAMBDA f : f.top \notin RipgrepExcludes)
        n == Len(files)
        perms == {p \in [1..n -> 1..n] : \A i, j \in 1..n : p[i] = p[j] => i = j}
    IN  {[i \in 1..n |-> files[p[i]]] : p \in perms}

\* the "match" lines ripgrep writes: none for a pattern it cannot parse (it
\* exits with an error message on stderr), else at most -m max_results per file
RipgrepMatches(args, files) ==
    IF ~ValidPattern(args.query) THEN <<>>
    ELSE ScanFiles(files, args.query, FALSE, args.case_sensitive, TRUE, args.max_results)

\* how the subprocess can end: it completes; subprocess.run times out; it
\* cannot be launched; it is killed while writing; its output is not JSON;
\* its output is JSON lines that are not objects
RipgrepBehaviours ==
    {"ok", "timeout", "launch_error", "killed", "not_json_output", "wrong_shape_output"}

\* search(): the strategy detected at construction is called
CsSearch ==
    /\ cs_pc = "idle"
    /\ cs_args' \in {Some(a) : a \in SearchArgs}
    /\ cs_pc' = IF cs_has_ripgrep THEN "ripgrep" ELSE "python"
    /\ UNCHANGED <<cs_has_ripgrep, cs_route, cs_result, outsideSearcher>>

\* _search_ripgrep: the subprocess, the parsing of its output, and the
\* handlers: [] on timeout, the scanner on any other exception
CsRipgrep ==
    /\ cs_pc = "ripgrep"
    /\ \E b \in RipgrepBehaviours : \E files \in FileOrders :
          LET full == RipgrepMatches(cs_args[1], files)
          IN  /\ cs_route' = Append(cs_route, b)
              /\ \/ /\ b = "ok"
                    /\ cs_result' = Some(Take(full, cs_args[1].max_results))
                    /\ cs_pc' = "returned"
                 \/ /\ b = "killed"
                    /\ \E n \in 0..Len(full) :
                          cs_result' = Some(Take(Take(full, n), cs_args[1].max_results))
                    /\ cs_pc' = "returned"
                 \/ /\ b \in {"timeout", "not_json_output"}
                    /\ cs_result' = Some(<<>>)
                    /\ cs_pc' = "returned"
                 \/ /\ b \in {"launch_error", "wrong_shape_output"}
                    /\ cs_pc' = "python"
                    /\ UNCHANGED cs_result
    /\ UNCHANGED <<cs_has_ripgrep, cs_args, outsideSearcher>>

\* _search_python
CsPython ==
    /\ cs_pc = "python"
    /\ cs_route' = Append(cs_route, "python")
    /\ cs_result' = Some(SearchPython(cs_args[1]))
    /\ cs_pc' = "returned"
    /\ UNCHANGED <<cs_has_ripgrep, cs_args, outsideSearcher>>

\* ----------------------------------------------------------- Scoring Engine
\* what IssueScorer.rank_issues is called with: issues with pairwise different
\* numbers, each with the total and the reasons score_issue gives it, and any
\* integer top_n
RankTotals == {40, 55, 70}
RankReasons == {<<"Has 'good first issue' label (+25 pts)">>,
                <<"No beginner-friendly labels found">>}

RECURSIVE ScoredLists(_)
ScoredLists(n) ==
    IF n = 0 THEN {<<>>}
    ELSE ScoredLists(n - 1) \cup
         {Append(l, [number |-> n, total |-> t, reasons |-> r]) :
             l \in {x \in ScoredLists(n - 1) : Len(x) = n - 1},
             t \in RankTotals, r \in RankReasons}

RankArgs == [issues : ScoredLists(MaxRanked),
             top_n : (0 - MaxRanked)..(MaxRanked + 1)]

\* one call of rank_issues
RankIssues ==
    /\ rk_args = None
    /\ \E args \in RankArgs :
          /\ rk_args' = Some(args)
          /\ rk_result' = Some(rank_issues(args.issues, args.top_n))
    /\ UNCHANGED <<sc_issue, sc_now, sc_results, outsideScoring>>

\* a text is its length and the fragments of it in which a keyword can occur,
\* as written; the rest of the text is filler that contains no keyword
Text(len, parts) == [len |-> len, parts |-> parts]

\* str.lower() of a label or a fragment
LowerOf(w) ==
    CASE w = "Help Wanted" -> "help wanted"
      [] w = "Refactor" -> "refactor"
      [] w = "Steps to reproduce" -> "steps to reproduce"
      [] w = "HTTP" -> "http"
      [] w = "The" -> "the"
      [] w = "User" -> "user"
      [] OTHER -> w

\* text.lower()
TextLower(t) == Text(t.len, {LowerOf(w) : w \in t.parts})

\* the keywords that are substrings of a fragment
Within(w) ==
    CASE w = "breaking changes" -> {"breaking", "breaking change"}
      [] w = "database schema" -> {"database schema", "database"}
      [] OTHER -> {w}

\* keyword in text
Has(t, keyword) == \E w \in t.parts : keyword \in Within(w)

\* f"{title} {body}"
Joined(title, body) == Text(title.len + 1 + body.len, title.parts \cup body.parts)

\* body or ""
OrEmpty(body) == IF body = None THEN Text(0, {}) ELSE body[1]

POSITIVE_LABELS ==
    << [label |-> "good first issue", points |-> 25],
       [label |-> "good-first-issue", points |-> 25],
       [label |-> "first-timers-only", points |-> 25],
       [label |-> "beginner", points |-> 20],
       [label |-> "easy", points |-> 20],
       [label |-> "starter", points |-> 20],
       [label |-> "help wanted", points |-> 15],
       [label |-> "help-wanted", points |-> 15],
       [label |-> "documentation", points |-> 15],
       [label |-> "docs", points |-> 15],
       [label |-> "bug", points |-> 10],
       [label |-> "enhancement", points |-> 8],
       [label |-> "feature", points |-> 8],
       [label |-> "hacktoberfest", points |-> 10] >>

RISK_LABELS ==
    << [label |-> "breaking change", points |-> 0 - 15],
       [label |-> "breaking-change", points |-> 0 - 15],
       [label |-> "complex", points |-> 0 - 10],
       [label |-> "difficult", points |-> 0 - 10],
       [label |-> "hard", points |-> 0 - 10],
       [label |-> "security", points |-> 0 - 10],
       [label |-> "performance", points |-> 0 - 8],
       [label |-> "critical", points |-> 0 - 8],
       [label |-> "urgent", points |-> 0 - 5],
       [label |-> "needs-design", points |-> 0 - 5] >>

CLARITY_KEYWORDS ==
    {"steps to reproduce", "expected behavior", "actual behavior", "environment",
     "version", "screenshot", "error message", "stack trace", "example", "how to"}

RISK_KEYWORDS ==
    {"refactor", "rewrite", "breaking", "migration", "deprecate", "security",
     "performance", "concurrent", "async", "thread", "database schema",
     "api change"}

\* the entries of a label table that the issue's labels match, in table order
MatchingLabels(table, labels) ==
    SelectSeq(table, LAMBDA e : e.label \in {LowerOf(l) : l \in labels})

RECURSIVE SumPoints(_)
SumPoints(entries) ==
    IF entries = <<>> THEN 0 ELSE Head(entries).points + SumPoints(Tail(entries))

\* _score_labels adding up the matching labels
_score_labels_Sum(labels) ==
    [score |-> Min2(25, SumPoints(MatchingLabels(POSITIVE_LABELS, labels))),
     reasons |-> <<>>]

\* _score_labels taking the lowest matching label
_score_labels_Lowest(labels) ==
    LET matching == MatchingLabels(POSITIVE_LABELS, labels)
        points == {matching[i].points : i \in DOMAIN matching} \cup {25}
    IN  [score |-> CHOOSE p \in points : \A q \in points : p <= q,
         reasons |-> <<>>]

_score_labels(labels) ==
    LET matching == MatchingLabels(POSITIVE_LABELS, labels)
        points == {matching[i].points : i \in DOMAIN matching} \cup {0}
        score == CHOOSE p \in points : \A q \in points : q <= p
        named == SelectSeq(matching, LAMBDA e : e.points >= 15)
        reasons == [i \in DOMAIN named |->
                       "Has '" \o named[i].label \o "' label (+"
                           \o ToString(named[i].points) \o " pts)"]
    IN  [score |-> Min2(25, score),
         reasons |-> IF reasons = <<>> THEN <<"No beginner-friendly labels found">>
                     ELSE reasons]

_score_clarity(title, body_or_none) ==
    LET body == OrEmpty(body_or_none)
        full_text == TextLower(Joined(title, body))
        keywords_found == Cardinality({k \in CLARITY_KEYWORDS : Has(full_text, k)})
        score == (IF title.len >= 20 THEN 3 ELSE 0)
               + (IF title.len >= 40 THEN 2 ELSE 0)
               + (IF body.len >= 100 THEN 2 ELSE 0)
               + (IF body.len >= 100 /\ body.len >= 300 THEN 2 ELSE 0)
               + (IF body.len >= 100 /\ body.len >= 500 THEN 1 ELSE 0)
               + (IF keywords_found >= 1 THEN 2 ELSE 0)
               + (IF keywords_found >= 3 THEN 3 ELSE 0)
               + (IF Has(body, "fence") THEN 3 ELSE 0)
               + (IF Has(body, "http") \/ Has(body, "[") THEN 2 ELSE 0)
        reasons == (IF keywords_found >= 1
                    THEN <<"Good structure with " \o ToString(keywords_found)
                              \o " clarity indicators">>
                    ELSE <<>>)
                \o (IF Has(body, "fence") THEN <<"Includes code examples">> ELSE <<>>)
    IN  [score |-> Min2(20, score),
         reasons |-> IF reasons # <<>> THEN reasons
                     ELSE IF Min2(20, score) > 10
                          THEN <<"Well-documented issue (" \o ToString(body.len)
                                    \o " chars)">>
                          ELSE <<"Could use more documentation">>]

\* a timestamp string: None when it is no ISO date, else its day and whether
\* it carries a UTC offset
Timestamp(day, utc) == Some([day |-> day, utc |-> utc])

\* fromisoformat raises on a string that is no ISO date, and now - updated
\* raises on a date without offset (now is offset-aware); except Exception
\* catches both. (now - updated).days is the difference of the days
_score_activity(created_at, updated_at, comments, now) ==
    IF created_at = None \/ updated_at = None \/ ~updated_at[1].utc
    THEN [score |-> Min2(15, 7), reasons |-> <<>>]
    ELSE LET days_since_update == now - updated_at[1].day
             recency == IF days_since_update <= 7 THEN 10
                        ELSE IF days_since_update <= 30 THEN 7
                        ELSE IF days_since_update <= 90 THEN 4
                        ELSE IF days_since_update <= 180 THEN 2
                        ELSE 0
             discussion == IF comments = 0 THEN 3
                           ELSE IF comments <= 3 THEN 2
                           ELSE IF comments <= 10 THEN 1
                           ELSE 0
         IN  [score |-> Min2(15, recency + discussion),
              reasons |->
                  (IF days_since_update <= 7
                   THEN <<"Recently active (updated within 1 week)">>
                   ELSE IF days_since_update <= 30
                   THEN <<"Active within last month">>
                   ELSE IF days_since_update <= 180 THEN <<>>
                   ELSE <<"Issue has been inactive for a while">>)
                  \o (IF comments = 0
                      THEN <<"No existing discussion (clean slate)">> ELSE <<>>)]

\* _score_size that reads no indicator
_score_size_NoIndicators(body_or_none) ==
    [score |-> 10, reasons |-> <<"Moderate effort estimated">>]

_score_size(body_or_none) ==
    LET body == TextLower(OrEmpty(body_or_none))
        small_indicators ==
            {"typo", "spelling", "grammar", "rename", "update readme",
             "add comment", "documentation", "fix link", "broken link",
             "update dependency", "bump version", "one line", "simple",
             "quick fix", "minor"}
        large_indicators ==
            {"refactor", "rewrite", "implement", "new feature", "redesign",
             "architecture", "migration", "database", "multiple files",
             "breaking change", "api"}
        small_count == Cardinality({k \in small_indicators : Has(body, k)})
        large_count == Cardinality({k \in large_indicators : Has(body, k)})
        score == 10
               + (IF small_count >= 2 THEN 8 ELSE IF small_count = 1 THEN 5 ELSE 0)
               - (IF large_count >= 2 THEN 8 ELSE IF large_count = 1 THEN 4 ELSE 0)
               - (IF body.len > 2000 THEN 3 ELSE 0)
        reasons == (IF small_count >= 2
                    THEN <<"Appears to be a small, focused task">> ELSE <<>>)
                \o (IF large_count >= 2
                    THEN <<"May require significant effort">> ELSE <<>>)
    IN  [score |-> Max2(0, Min2(20, score)),
         reasons |-> IF reasons = <<>> THEN <<"Moderate effort estimated">>
                     ELSE reasons]

\* _calculate_risk without the cap
_calculate_risk_Uncapped(title, body_or_none, labels) ==
    [score |-> SumPoints(MatchingLabels(RISK_LABELS, labels)), reasons |-> <<>>]

_calculate_risk(title, body_or_none, labels) ==
    LET full_text == TextLower(Joined(title, OrEmpty(body_or_none)))
        matching == MatchingLabels(RISK_LABELS, labels)
        risk_count == Cardinality({k \in RISK_KEYWORDS : Has(full_text, k)})
        penalty == SumPoints(matching)
                 - (IF risk_count >= 3 THEN 10 ELSE IF risk_count >= 1 THEN 3 ELSE 0)
        capped == Max2(0 - 20, Min2(0, penalty))
        reasons == [i \in DOMAIN matching |->
                       "Risk: '" \o matching[i].label \o "' label ("
                           \o ToString(matching[i].points) \o " pts)"]
                \o (IF risk_count >= 3
                    THEN <<"Multiple complexity indicators found ("
                              \o ToString(risk_count) \o ")">>
                    ELSE <<>>)
    IN  [score |-> capped,
         reasons |-> IF capped = 0
                     THEN Append(reasons, "No significant risk factors detected")
                     ELSE reasons]

\* the constraints of the fields of ScoreBreakdown
ScoreBreakdownValid(b) ==
    /\ b.labels \in 0..25
    /\ b.clarity \in 0..20
    /\ b.activity \in 0..15
    /\ b.size_estimate \in 0..20
    /\ b.risk_penalty \in (0 - 20)..0

\* score_issue at the moment now: raised is None when it returns
score_issue(issue, now) ==
    LET l == _score_labels(issue.labels)
        c == _score_clarity(issue.title, issue.body)
        a == _score_activity(issue.created_at, issue.updated_at, issue.comments, now)
        z == _score_size(issue.body)
        r == _calculate_risk(issue.title, issue.body, issue.labels)
        total == l.score + c.score + a.score + z.score + r.score
        breakdown == [labels |-> l.score, clarity |-> c.score, activity |-> a.score,
                      size_estimate |-> z.score, risk_penalty |-> r.score]
    IN  [raised |-> IF ScoreBreakdownValid(breakdown) THEN None
                    ELSE Some("ValidationError"),
         total |-> Max2(0, Min2(100, total)),
         breakdown |-> breakdown,
         reasons |-> l.reasons \o c.reasons \o a.reasons \o z.reasons \o r.reasons]

\* the label lists of the issues scored: up to two of these labels, or the
\* three risk labels together
ScoreLabels ==
    {"good first issue", "Help Wanted", "bug", "breaking change", "security",
     "complex"}

ScoreLabelSets ==
    {ls \in SUBSET ScoreLabels : Cardinality(ls) <= 2}
        \cup {{"breaking change", "security", "complex"}}

\* the titles of the issues scored:
\*   "Test issue"
\*   "Major security refactor with breaking changes"
\*   "Clear and detailed documentation update with steps to reproduce"
\*   "Steps to reproduce, expected behavior and actual behavior"
ScoreTitles ==
    {Text(10, {}),
     Text(45, {"security", "refactor", "breaking changes"}),
     Text(63, {"documentation", "steps to reproduce"}),
     Text(57, {"Steps to reproduce", "expected behavior", "actual behavior"})}

\* the body of test_breakdown_risk_min_negative_20
RiskyBody ==
    Text(47, {"refactor", "rewrite", "security", "performance", "migration"})

\* the bodies of the issues scored: no body, or
\*   "refactor rewrite security performance migration"
\*   "Refactor security, migration, database schema changes"
\*   "typo fix simple quick"
\*   "A normal issue body with some content"
\*   "implement the new feature"
\*   "fix typo"
\*   "update the api"
\*   "async thread"
\*   "see [docs]"
\*   "HTTP error example"
\*   "A" * 1000
\*   "a" * 2001
\*   300 characters that mention "version"
\*   520 characters with "Steps to reproduce", "expected behavior", "actual
\*   behavior", a fenced code block (the fragment "fence") and an http link
ScoreBodies ==
    {None} \cup
    {Some(b) : b \in
        {RiskyBody,
         Text(53, {"Refactor", "security", "migration", "database schema"}),
         Text(21, {"typo", "simple"}),
         Text(37, {}),
         Text(25, {"implement", "new feature"}),
         Text(8, {"typo"}),
         Text(14, {"api"}),
         Text(12, {"async", "thread"}),
         Text(10, {"["}),
         Text(18, {"HTTP", "example"}),
         Text(1000, {}),
         Text(2001, {}),
         Text(300, {"version"}),
         Text(520, {"Steps to reproduce", "expected behavior", "actual behavior",
                    "fence", "http"})}}

\* the issues scored: updated on day 0, with or without a UTC offset in the
\* timestamp, or with a timestamp that is no ISO date
ScoreIssues ==
    [labels : ScoreLabelSets, title : ScoreTitles, body : ScoreBodies,
     created_at : {Timestamp(0, TRUE)},
     updated_at : {None, Timestamp(0, FALSE), Timestamp(0, TRUE)},
     comments : {0, 3, 10, 11}]

\* the days on which the first call is made
ScoreDays == {7, 90, 180}

\* one call of score_issue: the first on any issue on any day, a later one on
\* the same issue
ScoreIssue ==
    /\ Len(sc_results) < MaxScoreCalls
    /\ \E issue \in (IF sc_issue = None THEN ScoreIssues ELSE {sc_issue[1]}),
          now \in (IF sc_issue = None THEN ScoreDays ELSE {sc_now}) :
          /\ sc_issue' = Some(issue)
          /\ sc_now' = now
          /\ sc_results' = Append(sc_results,
                                  [at |-> now, result |-> score_issue(issue, now)])
    /\ UNCHANGED <<rk_args, rk_result, outsideScoring>>

\* a day passes after the first call
DayPasses ==
    /\ Len(sc_results) = 1
    /\ sc_now = sc_results[1].at
    /\ sc_now' = sc_now + 1
    /\ UNCHANGED <<rk_args, rk_result, sc_issue, sc_results, outsideScoring>>

\* ----------------------------------------------------------- text utilities
\* a text is the sequence of its maximal runs of letters, digits and
\* underscores, as written
KeywordTokens == {"The", "user", "User", "login", "of", "token", "db"}

\* "The user cannot login because of invalid auth token"
ExampleText ==
    <<"The", "user", "cannot", "login", "because", "of", "invalid", "auth", "token">>

RECURSIVE TextsUpTo(_)
TextsUpTo(n) ==
    IF n = 0 THEN {<<>>}
    ELSE TextsUpTo(n - 1) \cup
         {Append(t, w) : t \in {x \in TextsUpTo(n - 1) : Len(x) = n - 1},
                         w \in KeywordTokens}

\* what the program calls extract_keywords with: a text and a maximum count
KeywordArgs ==
    [text : TextsUpTo(MaxTextLen), max_keywords : 0..MaxKeywords]
        \cup {[text |-> ExampleText, max_keywords |-> 5]}

\* the pattern \b[a-zA-Z_][a-zA-Z0-9_]{2,}\b on one run: three characters or
\* more, the first no digit
IsWord(w) == w \notin {"of", "db"}

stopwords ==
    {"the", "a", "an", "is", "are", "was", "were", "be", "been", "being",
     "have", "has", "had", "do", "does", "did", "will", "would", "could",
     "should", "may", "might", "must", "shall", "can", "need", "dare",
     "ought", "used", "to", "of", "in", "for", "on", "with", "at", "by",
     "from", "as", "into", "through", "during", "before", "after",
     "above", "below", "between", "under", "again", "further", "then",
     "once", "here", "there", "when", "where", "why", "how", "all", "each",
     "few", "more", "most", "other", "some", "such", "no", "nor", "not",
     "only", "own", "same", "so", "than", "too", "very", "just", "and",
     "but", "if", "or", "because", "until", "while", "it", "this",
     "that", "these", "those", "i", "we", "you", "he", "she", "they",
     "what", "which", "who", "whom", "am"}

\* word_counts[w]
WordCount(words, w) == Cardinality({i \in 1..Len(words) : words[i] = w})

\* the keys of word_counts, in insertion order
RECURSIVE WordKeys(_, _)
WordKeys(words, seen) ==
    IF words = <<>> THEN <<>>
    ELSE IF Head(words) \in seen THEN WordKeys(Tail(words), seen)
         ELSE <<Head(words)>> \o WordKeys(Tail(words), seen \cup {Head(words)})

\* sorted(word_counts.items(), key=count, reverse=True): stable
RECURSIVE SortByFrequency(_, _)
SortByFrequency(keys, words) ==
    IF keys = <<>> THEN <<>>
    ELSE LET rest == SortByFrequency(SubSeq(keys, 1, Len(keys) - 1), words)
             w == keys[Len(keys)]
             ahead == SelectSeq(rest, LAMBDA k : WordCount(words, k) >= WordCount(words, w))
             behind == SelectSeq(rest, LAMBDA k : WordCount(words, k) < WordCount(words, w))
         IN  ahead \o <<w>> \o behind

\* extract_keywords that filters no stopword
extract_keywords_KeepsStopwords(text, max_keywords) ==
    LET words == SelectSeq([i \in 1..Len(text) |-> LowerOf(text[i])], IsWord)
    IN  Take(SortByFrequency(WordKeys(words, {}), words), max_keywords)

extract_keywords(text, max_keywords) ==
    LET words == SelectSeq([i \in 1..Len(text) |-> LowerOf(text[i])], IsWord)
        counted == SelectSeq(words, LAMBDA w : w \notin stopwords)
    IN  Take(SortByFrequency(WordKeys(counted, {}), counted), max_keywords)

\* one call of extract_keywords
ExtractKeywords ==
    /\ kw_args = None
    /\ \E args \in KeywordArgs :
          /\ kw_args' = Some(args)
          /\ kw_result' = Some(extract_keywords(args.text, args.max_keywords))
    /\ UNCHANGED <<chunker, outsideTextUtil>>

\* the codes given to chunk_code, as what code.split("\n") makes of them:
\* one line at least, the lines told apart by their number
CodeLines == {[i \in 1..n |-> i] : n \in 1..MaxCodeLines}

\* a call of chunk_code with 0 <= overlap_lines < max_lines
CodeArgs ==
    {a \in [lines : CodeLines, max_lines : 1..MaxChunkLines,
            overlap_lines : 0..(MaxChunkLines - 1)] : a.overlap_lines < a.max_lines}

\* chunk_code up to its loop: a code of at most max_lines lines is its own
\* only chunk
ChunkCodeCall ==
    /\ ck_pc = "idle"
    /\ \E args \in CodeArgs :
          /\ ck_args' = Some(args)
          /\ IF Len(args.lines) <= args.max_lines
             THEN /\ ck_chunks' = <<args.lines>>
                  /\ ck_pc' = "returned"
             ELSE /\ ck_chunks' = <<>>
                  /\ ck_pc' = "loop"
    /\ ck_start' = 0
    /\ UNCHANGED <<keywordCall, outsideTextUtil>>

\* one iteration of the loop of chunk_code: lines[start:end] is appended,
\* start moves to end - overlap_lines, and the loop is left when start has
\* reached the number of lines
ChunkCodeStep ==
    /\ ck_pc = "loop"
    /\ Len(ck_chunks) < MaxChunks
    /\ LET lines == ck_args[1].lines
           end == Min2(ck_start + ck_args[1].max_lines, Len(lines))
       IN  /\ ck_chunks' = Append(ck_chunks, SubSeq(lines, ck_start + 1, end))
           /\ ck_start' = end - ck_args[1].overlap_lines
           /\ ck_pc' = IF ck_start' >= Len(lines) THEN "returned" ELSE "loop"
    /\ UNCHANGED <<ck_args, keywordCall, outsideTextUtil>>

\* the characters of the texts given to chunk_text; "nl" is the newline and
\* "." the full stop of the texts with breaks
TextChars == {"x", " "}

Whitespace == {" ", "nl"}

\* texts with a paragraph break
ParagraphTexts ==
    {<<"x", "x", "x", "x", "x", "nl", "nl", "x", "x">>,
     <<"x", "nl", "nl", "x", "x", "x", "x", "x", "x">>,
     <<"x", "x", "x", "x", "x", "x", "nl", "nl", "x">>}

\* texts with a sentence break
SentenceTexts ==
    {<<"x", "x", "x", "x", "x", ".", " ", "x", "x">>,
     <<"x", ".", " ", "x", "x", "x", "x", "x", "x">>,
     <<"x", "x", "x", "x", "x", "x", ".", " ", "x", "x">>}

ChunkTexts ==
    UNION {[1..n -> TextChars] : n \in 0..MaxTextChars} \cup SentenceTexts \cup ParagraphTexts

\* a call of chunk_text with 0 <= overlap_tokens < max_tokens
ChunkTextArgs ==
    {a \in [text : ChunkTexts, max_tokens : 1..MaxChunkTokens,
            overlap_tokens : 0..(MaxChunkTokens - 1)] : a.overlap_tokens < a.max_tokens}

\* max_chars = max_tokens * 4, overlap_chars = overlap_tokens * 4
CharsPerToken == 4

\* a slice bound as Python reads it: a negative one counts from the end
SliceBound(i, n) == IF i < 0 THEN Max2(0, n + i) ELSE Min2(i, n)

\* text[start:end], positions counted from 0
Slice(text, start, end) ==
    SubSeq(text, SliceBound(start, Len(text)) + 1, SliceBound(end, Len(text)))

\* text.rfind(sub, start, end): the highest position of sub within the
\* slice, -1 when there is none
rfind(text, sub, start, end) ==
    LET first == SliceBound(start, Len(text))
        last == SliceBound(end, Len(text)) - Len(sub)
        found == {i \in first..last : \A k \in 1..Len(sub) : text[i + k] = sub[k]}
    IN  IF found = {} THEN 0 - 1 ELSE CHOOSE i \in found : \A j \in found : j <= i

\* str.strip()
RECURSIVE strip(_)
strip(text) ==
    IF text = <<>> THEN <<>>
    ELSE IF Head(text) \in Whitespace THEN strip(Tail(text))
    ELSE IF text[Len(text)] \in Whitespace THEN strip(SubSeq(text, 1, Len(text) - 1))
    ELSE text

\* the end of the chunk that begins at start: a paragraph break or a
\* sentence break in the second half of the window, else the last space
\* after start, else the whole window
BreakPoint(text, start, max_chars) ==
    LET end == start + max_chars
        para_break == rfind(text, <<"nl", "nl">>, start, end)
        sentence_break == rfind(text, <<".", " ">>, start, end)
        word_break == rfind(text, <<" ">>, start, end)
    IN  IF end >= Len(text) THEN end
        ELSE IF para_break > start + (max_chars \div 2) THEN para_break + 2
        ELSE IF sentence_break > start + (max_chars \div 2) THEN sentence_break + 2
        ELSE IF word_break > start THEN word_break + 1
        ELSE end

\* chunk_text up to its loop: a text of at most max_chars characters is its
\* own only chunk
ChunkTextCall ==
    /\ ck_pc = "idle"
    /\ \E args \in ChunkTextArgs :
          /\ ck_args' = Some(args)
          /\ IF Len(args.text) <= args.max_tokens * CharsPerToken
             THEN /\ ck_chunks' = <<args.text>>
                  /\ ck_pc' = "returned"
             ELSE /\ ck_chunks' = <<>>
                  /\ ck_pc' = "loop"
    /\ ck_start' = 0
    /\ UNCHANGED <<keywordCall, outsideTextUtil>>

\* one iteration of the loop of chunk_text
ChunkTextStep ==
    /\ ck_pc = "loop"
    /\ Len(ck_chunks) < MaxChunks
    /\ LET text == ck_args[1].text
           end == BreakPoint(text, ck_start, ck_args[1].max_tokens * CharsPerToken)
       IN  /\ ck_chunks' = Append(ck_chunks, strip(Slice(text, ck_start, end)))
           /\ ck_start' = end - ck_args[1].overlap_tokens * CharsPerToken
           /\ ck_pc' = IF ck_start' >= Len(text) THEN "returned" ELSE "loop"
    /\ UNCHANGED <<ck_args, keywordCall, outsideTextUtil>>

\* --------------------------------------------------------- specifications
TopChoices == (0 - 1)..MaxIssues

SelectedChoices == 0..(MaxIssues + 1)

ArgIssues == {IssueOf(n, t) : n \in 1..MaxIssues, t \in ScoreChoices}

DefaultIssue == IssueOf(1, 40)

InitCommon ==
    /\ GatewayIdle
    /\ wr_policy = None
    /\ wr_pc = "idle"
    /\ wr_attempt = 0
    /\ wr_delay = 0
    /\ wr_trace = <<>>
    /\ wr_waits = <<>>
    /\ wr_result = None
    /\ st_system_prompt = None
    /\ st_pc = "idle"
    /\ st_response = None
    /\ st_result = None
    /\ a1_pc = "idle"
    /\ a1_ranked = <<>>
    /\ a1_replies = <<>>
    /\ a1_ranked_issues = <<>>
    /\ a1_result = None
    /\ a2_pc = "idle"
    /\ a2_extracted = <<>>
    /\ a2_keywords = <<>>
    /\ a2_suggested = None
    /\ a2_strategies = <<>>
    /\ a2_searched = <<>>
    /\ a2_hits = <<>>
    /\ a2_reply = None
    /\ a2_result = None
    /\ a3_pc = "idle"
    /\ a3_replies = <<>>
    /\ a3_briefing = None
    /\ a3_pr_draft = None
    /\ a3_result = None
    /\ cs_pc = "idle"
    /\ cs_args = None
    /\ cs_route = <<>>
    /\ cs_result = None
    /\ rk_args = None
    /\ rk_result = None
    /\ sc_issue = None
    /\ sc_now = 0
    /\ sc_results = <<>>
    /\ kw_args = None
    /\ kw_result = None
    /\ ck_args = None
    /\ ck_pc = "idle"
    /\ ck_start = 0
    /\ ck_chunks = <<>>
    /\ clock = 0
    /\ store = <<>>
    /\ pc = [c \in Calls |-> "idle"]
    /\ local = [c \in Calls |-> NoLocals]
    /\ ops = [c \in Calls |-> <<>>]
    /\ result = [c \in Calls |-> None]

\* one call of one entry point, for every scenario within the bounds
Init ==
    /\ InitCommon
    /\ a1_reasons = DefaultReasons
    /\ cs_has_ripgrep = FALSE
    /\ \E e \in EntryPoints : entry = [c \in Calls |-> IF c = 1 THEN e ELSE "idle"]
    /\ \E k \in CallbackKinds : status_callback = [c \in Calls |-> IF c = 1 THEN k ELSE "none"]
    /\ \/ /\ entry[1] = "run"
          /\ issuesIn \in IssueLists(MaxIssues)
          /\ failing \in Operations \cup {"none"}
          /\ top_issues \in TopChoices
          /\ selected_issue_number \in SelectedChoices
          /\ argIssue = DefaultIssue
       \/ /\ entry[1] = "run_phase1"
          /\ issuesIn \in IssueLists(MaxIssues)
          /\ failing \in {"get_repo", "get_issues", "agent1.run", "none"}
          /\ top_issues \in TopChoices
          /\ selected_issue_number = 0
          /\ argIssue = DefaultIssue
       \/ /\ entry[1] = "run_phase2"
          /\ issuesIn = <<>>
          /\ failing \in {"clone_repo", "get_file_tree", "agent2.run", "none"}
          /\ top_issues = 1
          /\ selected_issue_number = 0
          /\ argIssue \in ArgIssues
       \/ /\ entry[1] = "run_phase3"
          /\ issuesIn \in {l \in IssueLists(MaxIssues) : Len(l) = MaxIssues}
          /\ failing \in {"agent3.run", "none"}
          /\ top_issues \in {1, MaxIssues}
          /\ selected_issue_number = 0
          /\ argIssue \in ArgIssues
Next ==
    \/ Tick
    \/ \E c \in Calls : Run(c)
    \/ \E c \in Calls : Phase1(c)
    \/ \E c \in Calls : Phase2(c)
    \/ \E c \in Calls : Phase3(c)

Spec == Init /\ [][Next]_vars

\* two independent calls of run() on the same repository, under the same
\* collaborator behaviour, each with its own observer
PairIssueLists == {<<>>, <<IssueOf(1, 40), IssueOf(2, 55)>>}

InitPair ==
    /\ InitCommon
    /\ a1_reasons = DefaultReasons
    /\ cs_has_ripgrep = FALSE
    /\ entry = [c \in Calls |-> "run"]
    /\ status_callback \in [Calls -> CallbackKinds]
    /\ issuesIn \in PairIssueLists
    /\ failing \in Operations \cup {"none"}
    /\ top_issues = 1
    /\ selected_issue_number = 0
    /\ argIssue = DefaultIssue

NextPair ==
    \/ Tick
    \/ \E c \in Calls : Run(c)

SpecPair == InitPair /\ [][NextPair]_vars

\* one call of complete() on the Gateway
OrchestratorIdle ==
    /\ InitCommon
    /\ a1_reasons = DefaultReasons
    /\ cs_has_ripgrep = FALSE
    /\ entry = [c \in Calls |-> "idle"]
    /\ status_callback = [c \in Calls |-> "none"]
    /\ issuesIn = <<>>
    /\ failing = "none"
    /\ top_issues = 1
    /\ selected_issue_number = 0
    /\ argIssue = DefaultIssue

InitGateway == OrchestratorIdle

NextGateway ==
    \/ GwComplete
    \/ GwAttempt
    \/ GwSleep
    \/ GwExtract

SpecGateway == InitGateway /\ [][NextGateway]_vars

\* the two retry layers: one call of complete() on the Gateway and one call
\* of a function wrapped by with_retry
NextRetry ==
    \/ GwComplete
    \/ GwAttempt
    \/ GwSleep
    \/ GwExtract
    \/ WrCall
    \/ WrInvoke
    \/ WrSleep

SpecRetry == OrchestratorIdle /\ [][NextRetry]_vars

\* one call of complete_structured() on the Gateway
NextStructured ==
    \/ StCall
    \/ GwAttempt
    \/ GwSleep
    \/ GwExtract
    \/ StReceive
    \/ StParse

SpecStructured == OrchestratorIdle /\ [][NextStructured]_vars

\* one call of TriageNurseAgent.run, for every list of issues, top_n and
\* reasons of the Scoring Engine within the bounds
InitStageA ==
    /\ InitCommon
    /\ entry = [c \in Calls |-> "idle"]
    /\ status_callback = [c \in Calls |-> "none"]
    /\ issuesIn \in IssueLists(MaxIssues)
    /\ failing = "none"
    /\ top_issues \in TopChoices
    /\ selected_issue_number = 0
    /\ argIssue = DefaultIssue
    /\ a1_reasons \in [1..MaxIssues -> BaseReasonLists]
    /\ cs_has_ripgrep = FALSE

NextStageA ==
    \/ A1Start
    \/ A1Enhance
    \/ A1Return

SpecStageA == InitStageA /\ [][NextStageA]_vars

\* one call of ArchaeologistAgent.run
NextStageB ==
    \/ B2Strategy
    \/ B2Search
    \/ B2Analyze

SpecStageB == OrchestratorIdle /\ [][NextStageB]_vars

\* one call of SeniorDevAgent.run, for every issue within the bounds
InitStageC ==
    /\ InitCommon
    /\ a1_reasons = DefaultReasons
    /\ cs_has_ripgrep = FALSE
    /\ entry = [c \in Calls |-> "idle"]
    /\ status_callback = [c \in Calls |-> "none"]
    /\ issuesIn = <<>>
    /\ failing = "none"
    /\ top_issues = 1
    /\ selected_issue_number = 0
    /\ argIssue \in ArgIssues

NextStageC ==
    \/ A3Briefing
    \/ A3PrDraft
    \/ A3Return

SpecStageC == InitStageC /\ [][NextStageC]_vars

\* one call of search() on a CodeSearcher constructed with or without
\* ripgrep on the system
InitSearch ==
    /\ InitCommon
    /\ a1_reasons = DefaultReasons
    /\ cs_has_ripgrep \in BOOLEAN
    /\ entry = [c \in Calls |-> "idle"]
    /\ status_callback = [c \in Calls |-> "none"]
    /\ issuesIn = <<>>
    /\ failing = "none"
    /\ top_issues = 1
    /\ selected_issue_number = 0
    /\ argIssue = DefaultIssue

NextSearch ==
    \/ CsSearch
    \/ CsRipgrep
    \/ CsPython

SpecSearch == InitSearch /\ [][NextSearch]_vars

NextRank == RankIssues

SpecRank == OrchestratorIdle /\ [][NextRank]_vars

NextScore ==
    \/ ScoreIssue
    \/ DayPasses

SpecScore == OrchestratorIdle /\ [][NextScore]_vars

NextKeywords == ExtractKeywords

SpecKeywords == OrchestratorIdle /\ [][NextKeywords]_vars

\* one call of chunk_code; an iteration that can run does run
NextChunkCode ==
    \/ ChunkCodeCall
    \/ ChunkCodeStep

SpecChunkCode == OrchestratorIdle /\ [][NextChunkCode]_vars /\ WF_vars(ChunkCodeStep)

\* one call of chunk_text; an iteration that can run does run
NextChunkText ==
    \/ ChunkTextCall
    \/ ChunkTextStep

SpecChunkText == OrchestratorIdle /\ [][NextChunkText]_vars /\ WF_vars(ChunkTextStep)

\* ================================================================= claims
Finished(c) == pc[c] \in {"returned", "raised"}

Invoked(c, op) == op \in Range(ops[c])

ReturnedNormally(c, op) == Invoked(c, op) /\ failing # op

IsPrefix(s, t) == Len(s) <= Len(t) /\ \A i \in 1..Len(s) : s[i] = t[i]

\* C1: when get_issues returns no issue, run() returns success = false with
\* the message about the beginner-only filter, and in that run no stage is
\* invoked, the repository is not cloned and no run record is written.
C1_ZeroIssuesResult ==
    \A c \in Calls :
        (entry[c] = "run" /\ Finished(c) /\ issuesIn = <<>>
            /\ ReturnedNormally(c, "get_issues"))
        => /\ pc[c] = "returned"
           /\ result[c][1].success = FALSE
           /\ result[c][1].error = Some(NoIssuesMessage)
           /\ Range(ops[c]) \cap {"agent1.run", "agent2.run", "agent3.run",
                                  "clone_repo", "save_run_log"} = {}

\* C2: no entry point lets an exception escape: whatever raised, the call
\* returns a result with success = false and an error message.
C2_NoExceptionEscapes ==
    \A c \in Calls :
        /\ pc[c] # "raised"
        /\ (pc[c] = "returned" /\ local[c].error # None)
           => (result[c][1].success = FALSE /\ result[c][1].error # None)

\* C3: run() invokes its steps in the fixed order get_repo, get_issues,
\* clone_repo, get_file_tree, Stage A, Stage B, Stage C, save_run_log, each at
\* most once and only after every earlier step returned normally; Stage B
\* only after a non-empty ranking; success = true only after Stage C returned.
C3_FixedStepOrder ==
    \A c \in Calls :
        entry[c] = "run" =>
        /\ IsPrefix(ops[c], RunOrder)
        /\ \A i \in 1..(Len(ops[c]) - 1) : ops[c][i] # failing
        /\ Invoked(c, "agent2.run")
           => Agent1Run(TheRepo, issuesIn, top_issues).ranked_issues # <<>>
        /\ (pc[c] = "returned" /\ result[c][1].success)
           => ReturnedNormally(c, "agent3.run")

C3_Witness ==
    /\ entry[1] = "run"
    /\ pc[1] = "returned"
    /\ result[1][1].success
    /\ ops[1] = RunOrder

\* C4: when Stage B or Stage C fails in run(), the outputs of the stages that
\* had completed are still available to the caller in the returned result.
C4_EarlierOutputsKept ==
    \A c \in Calls :
        (entry[c] = "run" /\ pc[c] = "returned"
            /\ failing \in {"agent2.run", "agent3.run"} /\ Invoked(c, failing))
        => /\ result[c][1].agent1_output # None
           /\ result[c][1].agent1_output = local[c].agent1_output
           /\ failing = "agent3.run"
              => /\ result[c][1].agent2_output # None
                 /\ result[c][1].agent2_output = local[c].agent2_output

\* C5: whenever run() returns success = true a run record has been saved, and
\* the record holds the repository URL, the number of the analysed issue, the
\* three stage outputs of the returned result and the run duration.
C5_SuccessHasRecord ==
    \A c \in Calls :
        (entry[c] = "run" /\ pc[c] = "returned" /\ result[c][1].success)
        => /\ ReturnedNormally(c, "save_run_log")
           /\ local[c].run_log # None
           /\ \E n \in DOMAIN store : store[n] = local[c].run_log[1]
           /\ LET log == local[c].run_log[1]
                  r == result[c][1]
              IN  /\ log.repo_url = RepoUrl
                  /\ r.target_issue # None
                  /\ log.selected_issue = r.target_issue[1].number
                  /\ r.agent2_output # None
                  /\ log.selected_issue = r.agent2_output[1].issue_number
                  /\ log.agent1_output = r.agent1_output
                  /\ log.agent2_output = r.agent2_output
                  /\ r.agent3_output # None
                  /\ log.agent3_output = r.agent3_output
                  /\ Some(log.duration_seconds) = r.duration_seconds
                  /\ log.duration_seconds >= 0

\* a successful run whose analysed issue is the caller's choice, not Stage A's
C5_Witness ==
    /\ entry[1] = "run"
    /\ pc[1] = "returned"
    /\ result[1][1].success
    /\ selected_issue_number # 0
    /\ result[1][1].target_issue[1].number = selected_issue_number
    /\ result[1][1].agent1_output[1].selected_issue_number # selected_issue_number
    /\ result[1][1].duration_seconds[1] > 0

\* C6: every execution of run() writes exactly one run record, whether the
\* run completes or fails.
C6_OneRecordPerRun ==
    \A c \in Calls :
        (entry[c] = "run" /\ Finished(c))
        => /\ Cardinality({i \in 1..Len(ops[c]) : ops[c][i] = "save_run_log"}) = 1
           /\ ReturnedNormally(c, "save_run_log")

\* C7: the run-record store is append-only: after n saves, by any
\* interleaving of independent runs, it holds n records.
C7_StoreAppendOnly ==
    Cardinality(DOMAIN store) =
        Cardinality({c \in Calls : ReturnedNormally(c, "save_run_log")})

\* what of a result does not depend on the wall clock
Timeless(r) == IF r = None THEN None ELSE Some([r[1] EXCEPT !.duration_seconds = None])

\* C8: the observer has no effect on control flow: two runs of the same
\* scenario that differ only in the observer installed perform the same
\* operations in the same order and give the caller the same outcome.
C8_ObserverHasNoEffect ==
    \A c1, c2 \in Calls :
        (entry[c1] = "run" /\ entry[c2] = "run" /\ Finished(c1) /\ Finished(c2))
        => /\ pc[c1] = pc[c2]
           /\ ops[c1] = ops[c2]
           /\ Timeless(result[c1]) = Timeless(result[c2])

\* C9: a phased entry point repeats no earlier work: run_phase2 never fetches
\* metadata or issues and never invokes Stage A or C; run_phase3 never
\* fetches, clones or invokes Stage A or B; run_phase1 never clones and never
\* invokes Stage B or C.
C9_PhasesRepeatNothing ==
    \A c \in Calls :
        /\ entry[c] = "run_phase1"
           => Range(ops[c]) \cap {"clone_repo", "agent2.run", "agent3.run"} = {}
        /\ entry[c] = "run_phase2"
           => Range(ops[c]) \cap {"get_repo", "get_issues", "agent1.run", "agent3.run"} = {}
        /\ entry[c] = "run_phase3"
           => Range(ops[c]) \cap {"get_repo", "get_issues", "clone_repo",
                                  "agent1.run", "agent2.run"} = {}

C9_Witness ==
    /\ entry[1] = "run_phase2"
    /\ pc[1] = "returned"
    /\ result[1][1].success
    /\ ops[1] = <<"clone_repo", "get_file_tree", "agent2.run">>

\* C10: the Gateway retries only on a rate-limit response: an attempt that
\* fails in any other way (a status other than 200 and 429, or a network
\* error) is the last attempt and the request ends with a gateway error; an
\* attempt after the first is made only when the one before was rate-limited.
C10_RetryOnlyOnRateLimit ==
    /\ \A i \in 1..Len(gw_trace) :
          OtherUpstreamFailure(gw_trace[i])
          => /\ i = Len(gw_trace)
             /\ gw_pc = "raised"
             /\ gw_result = Some("GroqAPIError")
    /\ \A i \in 2..Len(gw_trace) : RateLimited(gw_trace[i - 1])
    /\ gw_attempt > 1 => RateLimited(gw_trace[gw_attempt - 1])

\* a server error that arrives on the attempt after a rate-limit response
C10_Witness ==
    /\ Len(gw_trace) = 2
    /\ RateLimited(gw_trace[1])
    /\ gw_trace[2].status = 500
    /\ gw_pc = "raised"

\* the trace is k rate-limited invocations of the wrapped function
AllRateLimited(t) == \A i \in 1..Len(t) : t[i] = "GroqRateLimitError"

\* the trace is k rate-limited attempts of _make_request
AllRateLimitedUpstream(t) == \A i \in 1..Len(t) : RateLimited(t[i])

Front(t) == SubSeq(t, 1, Len(t) - 1)

\* C11: with max_attempts = N, a call that is rate-limited k < N times and
\* then succeeds returns that success after exactly k retries (k sleeps, k+1
\* invocations), and it never gives up while fewer than N invocations were
\* rate-limited; for with_retry with N = max_attempts and for the Gateway's
\* _make_request with N = 5
C11_SuccessAfterKRetries ==
    /\ wr_policy # None =>
          LET N == wr_policy[1].max_attempts
              k == Len(wr_trace) - 1
          IN  /\ (AllRateLimited(wr_trace) /\ Len(wr_trace) < N)
                    => wr_pc \in {"call", "sleep"}
              /\ (wr_trace # <<>> /\ wr_trace[k + 1] = ""
                    /\ AllRateLimited(Front(wr_trace)) /\ k < N)
                    => /\ wr_pc = "returned"
                       /\ wr_result = Some("value")
                       /\ wr_waits # <<>> \/ k = 0
                       /\ Len(wr_waits) = k
                       /\ wr_attempt = k
    /\ gw_pc # "idle" =>
          LET k == Len(gw_trace) - 1
          IN  /\ (AllRateLimitedUpstream(gw_trace) /\ Len(gw_trace) < GatewayMaxAttempts)
                    => gw_pc \in {"request", "sleep"}
              /\ (gw_trace # <<>> /\ MakeRequestRaises(gw_trace[k + 1]) = {""}
                    /\ AllRateLimitedUpstream(Front(gw_trace)) /\ k < GatewayMaxAttempts)
                    => /\ gw_pc \in {"extract", "returned", "raised"}
                       /\ Len(gw_waits) = k
                       /\ gw_attempt = k + 1
                       /\ gw_pc = "returned" => gw_result = Some("content")
                       /\ gw_pc = "raised" => gw_result = Some("KeyError")

C11_Witness ==
    /\ wr_policy # None
    /\ wr_policy[1].max_attempts = 4
    /\ wr_trace = <<"GroqRateLimitError", "GroqRateLimitError", "GroqRateLimitError", "">>
    /\ wr_pc = "returned"
    /\ wr_result = Some("value")
    /\ Len(wr_waits) = 3
    /\ Len(gw_trace) = 4
    /\ AllRateLimitedUpstream(Front(gw_trace))
    /\ gw_pc = "returned"

\* C12: when every attempt of a Gateway request is rate-limited until the
\* attempts are exhausted, the caller of complete() receives the error kind
\* of the other upstream failures, GroqAPIError
C12_ExhaustionIsGatewayError ==
    (/\ gw_pc = "raised"
     /\ Len(gw_trace) = GatewayMaxAttempts
     /\ AllRateLimitedUpstream(gw_trace))
        => gw_result = Some("GroqAPIError")

\* the error kinds complete() raises for upstream failures
UpstreamFailureKinds ==
    UNION {MakeRequestRaises(o) : o \in {u \in UpstreamOutcomes : OtherUpstreamFailure(u)}}

\* the response was received and could not be parsed or validated
ParseOrValidationFailure ==
    /\ st_pc = "raised"
    /\ st_response # None

\* C20: when the response to complete_structured cannot be parsed or does not
\* validate, the error raised is of a kind distinct from the one raised for
\* upstream failures, and it carries the raw response text
C20_DistinctErrorWithRawResponse ==
    ParseOrValidationFailure =>
        /\ st_result[1].kind \notin UpstreamFailureKinds
        /\ st_result[1].response = st_response

\* C15: no content of a Gateway response makes run() fail: Stage A, whose
\* exception run() turns into success=false, never raises, whatever the
\* replies are, the scoring and every other collaborator succeeding
C15_MalformedReplyNeverFails == a1_pc # "raised"

\* issue i of the ranking has been given its justification
Justified(i) == i \in 1..Len(a1_ranked_issues)

BaseReasonsOf(i) == a1_reasons[a1_ranked[i].number]

FirstFour(l) == SubSeq(l, 1, IF Len(l) < 4 THEN Len(l) ELSE 4)

AnalysisFailed ==
    /\ a2_reply # None
    /\ ~AnalysisSucceeds(a2_reply[1], a2_hits, a2_strategies)

\* the hits as aggregated from the search results
RawHits == HitsOf(SearchAll(Take(a2_strategies, MaxSearches), {}))

\* C17: whenever the consolidated-analysis step of Stage B fails, Stage B
\* still returns, with the raw aggregated hits carrying their match-count
\* text, confidence "Medium", and nothing taken from the reply
C17_FallbackKeepsRawHits ==
    AnalysisFailed =>
        /\ a2_pc = "returned"
        /\ a2_result[1].raised = FALSE
        /\ a2_result[1].hits = RawHits
        /\ a2_result[1].confidence = "Medium"
        /\ a2_result[1].from_reply = FALSE

ConfidenceTiers == {"High", "Medium", "Low"}

\* C19: the confidence of every Stage B output is "High", "Medium" or "Low"
C19_ConfidenceIsATier ==
    a2_pc = "returned" => a2_result[1].confidence \in ConfidenceTiers

\* C16: in Stage C each generative call has its own fallback: a Gateway
\* failure in the briefing call alone, or in the PR-draft call alone, never
\* prevents Stage C from returning an output in which the other part is
\* present and the failed part holds its default
C16_EachCallHasFallback ==
    /\ a3_pc # "raised"
    /\ (a3_pc = "returned" /\ a3_replies[2] = "raises") =>
          /\ a3_result[1].pr_draft = Some(DefaultPRDraft(argIssue))
          /\ a3_result[1].briefing_markdown = a3_briefing[1]

RuntimeFailures ==
    {"timeout", "launch_error", "killed", "not_json_output", "wrong_shape_output"}

\* C13: if the ripgrep strategy was detected at construction but fails at
\* run time (timeout, crash or launch error, malformed output), search()
\* returns what the scanner returns for the same arguments
C13_RuntimeFailureFallsBack ==
    (/\ cs_pc = "returned"
     /\ cs_has_ripgrep
     /\ cs_route[1] \in RuntimeFailures)
        => cs_result = Some(SearchPython(cs_args[1]))

\* the lines of the files both strategies search that contain the query as
\* a literal substring
LiteralLines(args) ==
    {[file_path |-> RepoFiles[f].file_path, line_number |-> i] :
        <<f, i>> \in {<<g, j>> \in (1..Len(RepoFiles)) \X (1..3) :
            /\ RepoFiles[g].top \notin PythonIgnoreDirs
            /\ j <= Len(RepoFiles[g].lines)
            /\ Found(args.query, RepoFiles[g].lines[j], TRUE, args.case_sensitive)}}

\* C14: for a query that is not a valid pattern, search() returns the lines
\* that contain the query as a literal substring (all of them when
\* max_results allows), whichever strategy is active and runs normally
C14_InvalidPatternIsLiteral ==
    (/\ cs_pc = "returned"
     /\ ~ValidPattern(cs_args[1].query)
     /\ cs_route \in {<<"ok">>, <<"python">>})
        => /\ \A i \in 1..Len(cs_result[1]) :
                 \E f \in 1..Len(RepoFiles) :
                    /\ RepoFiles[f].file_path = cs_result[1][i].file_path
                    /\ Found(cs_args[1].query,
                             RepoFiles[f].lines[cs_result[1][i].line_number],
                             TRUE, cs_args[1].case_sensitive)
           /\ cs_args[1].max_results = 10
                 => LiteralLines(cs_args[1]) \subseteq Range(cs_result[1])

\* C29: a retried call terminates: for max_attempts >= 1 the wrapped
\* operation is invoked at least once and at most max_attempts times (at most
\* 5 times for a Gateway request), and after the last failed attempt no
\* further attempt or wait takes place: a finished call has slept exactly
\* once between two invocations
C29_BoundedAttempts ==
    /\ (wr_policy # None /\ wr_policy[1].max_attempts >= 1) =>
          /\ Len(wr_trace) <= wr_policy[1].max_attempts
          /\ Len(wr_waits) <= Len(wr_trace)
          /\ wr_pc \in {"returned", "raised"} =>
                /\ Len(wr_trace) >= 1
                /\ Len(wr_waits) = Len(wr_trace) - 1
    /\ Len(gw_trace) <= GatewayMaxAttempts
    /\ Len(gw_waits) <= Len(gw_trace)
    /\ gw_pc \in {"extract", "returned", "raised"} =>
          /\ Len(gw_trace) >= 1
          /\ Len(gw_waits) = Len(gw_trace) - 1

C29_Witness ==
    /\ wr_policy # None
    /\ wr_policy[1].max_attempts = 4
    /\ wr_pc = "raised"
    /\ Len(wr_trace) = 4
    /\ AllRateLimited(wr_trace)
    /\ Len(wr_waits) = 3
    /\ gw_pc = "raised"
    /\ Len(gw_trace) = GatewayMaxAttempts
    /\ AllRateLimitedUpstream(gw_trace)

\* C30: in run() the issue Stage B analyses is one of the fetched issues and
\* is the issue Stage C is given: the fetched issue whose number is
\* selected_issue_number when that number is given and fetched, otherwise
\* Stage A's top-ranked issue; the run record stores the number of that issue.
C30_AnalysedIssue ==
    \A c \in Calls :
        (entry[c] = "run" /\ local[c].agent2_output # None) =>
            LET fetched == Range(local[c].issues[1])
                top == local[c].agent1_output[1].ranked_issues[1]
                requested == {x \in fetched : /\ selected_issue_number # 0
                                              /\ x.number = selected_issue_number}
                expected == IF requested # {} THEN requested
                            ELSE {x \in fetched : /\ x.number = top.number
                                                  /\ x.total = top.score_total}
                analysed == {x \in fetched :
                                x.number = local[c].agent2_output[1].issue_number}
            IN  /\ local[c].issues[1] = issuesIn
                /\ Cardinality(analysed) = 1
                /\ analysed = expected
                /\ local[c].agent3_output # None =>
                      /\ local[c].agent3_output[1].issue_number
                            = local[c].agent2_output[1].issue_number
                      /\ local[c].agent3_output[1].code_for
                            = local[c].agent2_output[1].issue_number
                /\ local[c].run_log # None =>
                      \E x \in analysed : local[c].run_log[1].selected_issue = x.number

\* a saved run whose requested issue was fetched but left out of the ranking,
\* and one whose requested number was not fetched
C30_Witness ==
    \/ /\ entry[1] = "run" /\ local[1].run_log # None
       /\ top_issues = 1
       /\ selected_issue_number # 0
       /\ selected_issue_number = local[1].run_log[1].selected_issue
       /\ selected_issue_number
             # local[1].agent1_output[1].ranked_issues[1].number
       /\ local[1].agent3_output[1].issue_number = selected_issue_number
    \/ /\ entry[1] = "run" /\ local[1].run_log # None
       /\ selected_issue_number = MaxIssues + 1
       /\ local[1].run_log[1].selected_issue
             = local[1].agent1_output[1].ranked_issues[1].number

\* C22: for every list of issues and every top_n, rank_issues returns no more
\* than top_n entries and no more than the number of input issues.
C22_NeverMoreThanTopN ==
    rk_result # None =>
        /\ Len(rk_result[1]) <= rk_args[1].top_n
        /\ Len(rk_result[1]) <= Len(rk_args[1].issues)

\* the numbers of the issues of a list, in order
NumbersOf(l) == [i \in 1..Len(l) |-> l[i].number]

\* where the issue with number n stands in the list l
PositionIn(l, n) == CHOOSE i \in 1..Len(l) : l[i].number = n

\* the list with every issue's reasons replaced by r
WithReasons(l, r) == [i \in 1..Len(l) |-> [l[i] EXCEPT !.reasons = r]]

\* C23: the entries rank_issues returns are in non-increasing order of total,
\* entries with equal totals keep their relative input order, no issue left
\* out has a higher total than one returned, and the reasons play no part.
C23_RankedOrder ==
    rk_result # None =>
        LET given == rk_args[1].issues
            out == rk_result[1]
        IN  /\ \A i \in 1..Len(out) : \E j \in 1..Len(given) : given[j] = out[i]
            /\ \A i, j \in 1..Len(out) :
                  i < j =>
                      /\ out[i].number # out[j].number
                      /\ out[i].total >= out[j].total
                      /\ out[i].total = out[j].total =>
                            PositionIn(given, out[i].number)
                                < PositionIn(given, out[j].number)
            /\ \A j \in 1..Len(given) :
                  (\A i \in 1..Len(out) : out[i] # given[j]) =>
                      \A i \in 1..Len(out) : given[j].total <= out[i].total
            /\ \A r \in RankReasons :
                  NumbersOf(rank_issues(WithReasons(given, r), rk_args[1].top_n))
                      = NumbersOf(out)

\* a ranking that reorders, keeps a tie in input order and leaves an issue out
C23_Witness ==
    /\ rk_result # None
    /\ Len(rk_args[1].issues) = 3
    /\ Len(rk_result[1]) = 2
    /\ NumbersOf(rk_result[1]) = <<2, 3>>
    /\ rk_result[1][1].total = rk_result[1][2].total
    /\ rk_result[1][1].reasons # rk_result[1][2].reasons
    /\ rk_args[1].issues[1].total < rk_result[1][1].total

\* the sum of the five components of a breakdown
ComponentSum(b) == b.labels + b.clarity + b.activity + b.size_estimate + b.risk_penalty

\* C21: for every issue score_issue returns labels in 0..25, clarity in 0..20,
\* activity in 0..15, size_estimate in 0..20, risk_penalty in -20..0 and a
\* total equal to the sum of the five clamped to 0..100, so the ScoreBreakdown
\* and a RankedIssue (score_total in 0..100) can be built.
C21_ComponentsInRange ==
    \A i \in DOMAIN sc_results :
        LET r == sc_results[i].result
            b == r.breakdown
        IN  /\ r.raised = None
            /\ b.labels >= 0 /\ b.labels <= 25
            /\ b.clarity >= 0 /\ b.clarity <= 20
            /\ b.activity >= 0 /\ b.activity <= 15
            /\ b.size_estimate >= 0 /\ b.size_estimate <= 20
            /\ b.risk_penalty >= 0 - 20 /\ b.risk_penalty <= 0
            /\ r.total >= 0 /\ r.total <= 100
            /\ r.total = (IF ComponentSum(b) < 0 THEN 0
                          ELSE IF ComponentSum(b) > 100 THEN 100
                          ELSE ComponentSum(b))

\* an issue whose risk labels alone sum below -20 and whose components sum
\* below 0
C21_Witness ==
    /\ sc_results # <<>>
    /\ sc_issue[1].labels = {"breaking change", "security", "complex"}
    /\ sc_results[1].result.breakdown.risk_penalty = 0 - 20
    /\ ComponentSum(sc_results[1].result.breakdown) < 0
    /\ sc_results[1].result.total = 0

\* C24: two calls of score_issue on the same issue, made at any two moments,
\* return the same total, breakdown and reasons.
C24_Deterministic ==
    \A i, j \in DOMAIN sc_results : sc_results[i].result = sc_results[j].result

\* the issue has no risk label and no risk keyword in its title or body
NoRiskSignal(issue) ==
    /\ \A l \in issue.labels :
          \A i \in DOMAIN RISK_LABELS : RISK_LABELS[i].label # LowerOf(l)
    /\ \A w \in issue.title.parts \cup OrEmpty(issue.body).parts :
          Within(LowerOf(w)) \cap RISK_KEYWORDS = {}

RiskyIssue(issue) ==
    /\ issue.labels = {"breaking change", "security", "complex"}
    /\ issue.body = Some(RiskyBody)

\* the title holds none of the clarity keywords
PlainTitle(issue) ==
    \A w \in issue.title.parts : Within(LowerOf(w)) \cap CLARITY_KEYWORDS = {}

\* C26 as stated: that issue gets risk_penalty = -20 and total = 0, whatever
\* its title, update time and comment count.
C26_RiskyIssueTotalZero ==
    \A i \in DOMAIN sc_results :
        RiskyIssue(sc_issue[1]) =>
            /\ sc_results[i].result.breakdown.risk_penalty = 0 - 20
            /\ sc_results[i].result.total = 0

\* C26 amended: that issue gets risk_penalty = -20 whatever its title, update
\* time and comment count, and total = 0 whenever its title holds no clarity
\* keyword.
C26_RiskyIssuePlainTitleZero ==
    \A i \in DOMAIN sc_results :
        RiskyIssue(sc_issue[1]) =>
            /\ sc_results[i].result.breakdown.risk_penalty = 0 - 20
            /\ PlainTitle(sc_issue[1]) => sc_results[i].result.total = 0

\* that issue, fresh and undiscussed under a long title without clarity
\* keywords: the components sum to exactly 0
C26_Witness ==
    /\ sc_results # <<>>
    /\ RiskyIssue(sc_issue[1])
    /\ PlainTitle(sc_issue[1])
    /\ sc_issue[1].title.len >= 40
    /\ sc_results[1].result.breakdown.activity = 13
    /\ ComponentSum(sc_results[1].result.breakdown) = 0
    /\ sc_results[1].result.total = 0

\* the lines of the given files that match the query of the call (as a
\* pattern, or as a literal when it is no valid pattern), by file and number
MatchingLines(args, fileIndexes) ==
    {[file_path |-> RepoFiles[f].file_path, line_number |-> i] :
        <<f, i>> \in {<<g, j>> \in fileIndexes \X (1..MaxLines) :
            /\ j <= Len(RepoFiles[g].lines)
            /\ Found(args.query, RepoFiles[g].lines[j], ~ValidPattern(args.query),
                     args.case_sensitive)}}

\* the files outside the scanner's ignored directories
ScannedFiles == {f \in 1..Len(RepoFiles) : RepoFiles[f].top \notin PythonIgnoreDirs}

\* where a hit stands in the scan: its file's place in the walk, then its line
ScanRank(hit) ==
    (CHOOSE f \in 1..Len(RepoFiles) : RepoFiles[f].file_path = hit.file_path)
        * (MaxLines + 1) + hit.line_number

\* C27 as stated: with the fast strategy unavailable, search(q) returns
\* exactly one hit for each line that matches q, with its 1-based line number,
\* case-insensitively unless case_sensitive is set.
C27_OneHitPerMatchingLine ==
    (cs_pc = "returned" /\ ~cs_has_ripgrep) =>
        LET hits == cs_result[1]
        IN  /\ Range(hits) = MatchingLines(cs_args[1], 1..Len(RepoFiles))
            /\ \A i, j \in 1..Len(hits) : i # j => hits[i] # hits[j]

\* C27 amended: with the fast strategy unavailable, search(q) returns exactly
\* one hit, with its 1-based line number, for each line that matches q in the
\* files it reads outside the ignored directories, in scan order and up to
\* max_results hits, case-insensitively unless case_sensitive is set.
C27_OneHitPerScannedLine ==
    (cs_pc = "returned" /\ ~cs_has_ripgrep) =>
        LET hits == cs_result[1]
            expected == MatchingLines(cs_args[1], ScannedFiles)
        IN  /\ Range(hits) \subseteq expected
            /\ Len(hits) = Min2(cs_args[1].max_results, Cardinality(expected))
            /\ \A i, j \in 1..Len(hits) : i < j => ScanRank(hits[i]) < ScanRank(hits[j])
            /\ \A x \in expected \ Range(hits) :
                  \A i \in 1..Len(hits) : ScanRank(hits[i]) < ScanRank(x)

\* the scanner finds "BB" without regard to case: only line 3 of src/a.py
\* contains it, as "bb"
C27_Witness ==
    /\ cs_pc = "returned" /\ ~cs_has_ripgrep
    /\ cs_args[1].query = <<"B", "B">> /\ ~cs_args[1].case_sensitive
    /\ cs_result[1] = <<[file_path |-> "src/a.py", line_number |-> 3]>>

\* how often a word occurs in a text, whatever its case
Frequency(text, w) == Cardinality({i \in 1..Len(text) : LowerOf(text[i]) = w})

\* where a word first occurs in a text
FirstOccurrence(text, w) ==
    CHOOSE i \in 1..Len(text) :
        /\ LowerOf(text[i]) = w
        /\ \A j \in 1..(i - 1) : LowerOf(text[j]) # w

PointsOf(label) ==
    LET hits == {i \in DOMAIN POSITIVE_LABELS : POSITIVE_LABELS[i].label = LowerOf(label)}
    IN  IF hits = {} THEN 0 ELSE POSITIVE_LABELS[CHOOSE i \in hits : TRUE].points

\* C39: the labels score is the maximum, not the sum, of the table points of
\* the issue's labels matched case-insensitively: 0 when no label is in the
\* table, and unchanged when a qualifying label of equal or lower value is
\* added.
C39_LabelsScoreIsMaximum ==
    \A i \in DOMAIN sc_results :
        LET labels == sc_issue[1].labels
            score == sc_results[i].result.breakdown.labels
        IN  /\ \A l \in labels : PointsOf(l) <= score
            /\ score = 0 \/ \E l \in labels : PointsOf(l) = score
            /\ (\A l \in labels : PointsOf(l) = 0) => score = 0
            /\ \A l \in ScoreLabels :
                  (PointsOf(l) > 0 /\ PointsOf(l) <= score) =>
                      _score_labels(labels \cup {l}).score = score

\* an issue labelled "Help Wanted" (15) and "bug" (10) scores 15, not 25
C39_Witness ==
    /\ sc_results # <<>>
    /\ sc_issue[1].labels = {"Help Wanted", "bug"}
    /\ sc_results[1].result.breakdown.labels = 15

\* the recency tier of _score_activity
RecencyTier(days) ==
    IF days <= 7 THEN 10 ELSE IF days <= 30 THEN 7 ELSE IF days <= 90 THEN 4
    ELSE IF days <= 180 THEN 2 ELSE 0

\* the comment bonus of _score_activity
CommentBonus(comments) ==
    IF comments = 0 THEN 3 ELSE IF comments <= 3 THEN 2
    ELSE IF comments <= 10 THEN 1 ELSE 0

\* C40: the activity scorer never fails; when a timestamp of the issue cannot
\* be parsed the activity score is 7 whatever the comment count; otherwise it
\* is the recency tier for the days since the last update plus the comment
\* bonus.
C40_ActivityTiers ==
    \A i \in DOMAIN sc_results :
        LET issue == sc_issue[1]
            activity == sc_results[i].result.breakdown.activity
        IN  /\ sc_results[i].result.raised = None
            /\ IF issue.created_at = None \/ issue.updated_at = None
               THEN activity = 7
               ELSE activity = RecencyTier(sc_results[i].at - issue.updated_at[1].day)
                                   + CommentBonus(issue.comments)

\* C34: every wait between two attempts is at most the configured maximum
\* delay: max_delay for with_retry, 60 seconds for the Gateway, for every
\* choice of initial delay and base.
C34_WaitsBounded ==
    /\ wr_policy # None =>
          \A i \in 1..Len(wr_waits) : wr_waits[i] <= wr_policy[1].max_delay
    /\ \A i \in 1..Len(gw_waits) : gw_waits[i] <= WaitMax

\* C35: search() never returns more than max_results hits, under either
\* strategy, for any max_results >= 0.
C35_ResultCap ==
    cs_pc = "returned" => Len(cs_result[1]) <= cs_args[1].max_results

\* ripgrep, told -m 1, reports one line of each of several files; search()
\* returns one hit
C35_Witness ==
    /\ cs_pc = "returned"
    /\ cs_route = <<"ok">>
    /\ cs_args[1].query = <<".", "b">>
    /\ cs_args[1].max_results = 1
    /\ Len(cs_result[1]) = 1

\* the top directory of the file of a hit
TopOf(hit) ==
    RepoFiles[CHOOSE f \in 1..Len(RepoFiles) : RepoFiles[f].file_path = hit.file_path].top

\* C36: both strategies skip the same set of directories: neither returns a
\* hit from a directory that the other one excludes.
C36_SameExclusions ==
    cs_pc = "returned" =>
        \A i \in 1..Len(cs_result[1]) :
            TopOf(cs_result[1][i]) \notin PythonIgnoreDirs \cup RipgrepExcludes

\* what the query-suggestion request of Stage B answered
SuggestionFailed == a2_suggested # None /\ a2_suggested[1].kind \in {"raises", "not_json", "not_object", "string"}

NoRepeat(seq) == \A i, j \in 1..Len(seq) : seq[i] = seq[j] => i = j

\* C31: the keywords of a Stage B output are the extracted keywords, each
\* once and in extraction order, whatever the query-suggestion request was
\* answered
C31_KeywordsAreTheExtracted ==
    a2_pc = "returned" => a2_result[1].keywords = a2_extracted

\* C37: one run of Stage B calls the Code Search Engine at most 5 times and
\* never twice with one query, and after a failed query-suggestion request
\* every query searched is an extracted keyword
C37_SearchesBoundedAndDistinct ==
    /\ Len(a2_searched) <= MaxSearches
    /\ NoRepeat(a2_searched)
    /\ SuggestionFailed => Range(a2_searched) \subseteq Range(a2_extracted)

\* a suggested query that is also a keyword is searched once, and the three
\* distinct queries of four are searched
C37_Witness ==
    /\ a2_pc = "returned"
    /\ a2_suggested[1].items = <<"q1", "kw1">>
    /\ a2_extracted = <<"kw1", "kw2">>
    /\ a2_strategies = <<"q1", "kw1", "kw1", "kw2">>
    /\ a2_searched = <<"q1", "kw1", "kw2">>

\* all_results of the run
AllResults == SearchAll(Take(a2_strategies, MaxSearches), {})

\* C38: Stage B returns at most 10 hits, each for another file, in order of
\* non-increasing number of matches, and no file left out has more matches
\* than a file returned
C38_TopFilesByMatches ==
    a2_pc = "returned" =>
        LET hits == a2_result[1].hits
            paths == [i \in 1..Len(hits) |-> hits[i].path]
        IN  /\ Len(hits) <= MaxHits
            /\ NoRepeat(paths)
            /\ \A i \in 1..Len(hits) : MatchCount(AllResults, paths[i]) >= 1
            /\ \A i \in 1..(Len(hits) - 1) :
                   MatchCount(AllResults, paths[i]) >= MatchCount(AllResults, paths[i + 1])
            /\ \A f \in Range(FilesOf(AllResults, {})) \ Range(paths) :
                   \A i \in 1..Len(hits) :
                       MatchCount(AllResults, f) <= MatchCount(AllResults, paths[i])

\* thirteen files match; the ten returned start with the one matched twice,
\* which was the last to be found
C38_Witness ==
    /\ a2_pc = "returned"
    /\ Len(FilesOf(AllResults, {})) = 13
    /\ Len(a2_result[1].hits) = MaxHits
    /\ a2_result[1].hits[1].path = "d.py"

\* the chunks returned are runs of consecutive lines, of at most max_lines
\* lines each, that begin later and later and leave no line out
ChunksCoverCode ==
    LET lines == ck_args[1].lines
    IN  /\ \A c \in 1..Len(ck_chunks) :
               /\ Len(ck_chunks[c]) <= ck_args[1].max_lines
               /\ \A k \in 1..(Len(ck_chunks[c]) - 1) : ck_chunks[c][k + 1] = ck_chunks[c][k] + 1
        /\ \A c \in 1..(Len(ck_chunks) - 1) :
               /\ ck_chunks[c] # <<>>
               /\ ck_chunks[c + 1] # <<>>
               /\ ck_chunks[c][1] < ck_chunks[c + 1][1]
               /\ ck_chunks[c + 1][1] <= ck_chunks[c][Len(ck_chunks[c])] + 1
        /\ Range(lines) = UNION {Range(ck_chunks[c]) : c \in 1..Len(ck_chunks)}

C33_ChunkTextTerminates ==
    /\ ck_pc = "loop" ~> ck_pc = "returned"
    /\ [][ck_pc = "loop" => ck_start' > ck_start]_vars
    /\ [](ck_start >= 0)
====
